---- MODULE Spec2Model ----
(***************************************************************************)
(* Model of the article-writing pipeline: writeArticle (the five phases,   *)
(* the per-section writer/editor revision loop run under Promise.all, the  *)
(* usage ledger), calculateUsage and applyEditsAndGenerateMarkdown.        *)
(*                                                                         *)
(* Text is a sequence of one-character strings.  An optional value         *)
(* (undefined in the source) is a sequence of length 0 or 1.               *)
(***************************************************************************)
EXTENDS Integers, Sequences, FiniteSets, Bags, TLC

\* ------------------------------------------------------------------------
\* Bounds of the model
\* ------------------------------------------------------------------------
MaxSections == 2
\* research sub-calls and failed tool calls explored in one run
MaxResearch == 1
MaxLiveSections == 1

\* ------------------------------------------------------------------------
\* Program constants
\* ------------------------------------------------------------------------
MAX_ITERATIONS == 3

AgentRole == {"OUTLINER", "CONTENT_STRATEGIST", "WRITER", "EDITOR", "EDITOR_IN_CHIEF"}

None == <<>>
Some(x) == <<x>>

Sections == 1..MaxSections

\* ------------------------------------------------------------------------
\* Values exchanged with the agents (the agents' outputs are inputs of the
\* orchestrator, drawn from small sets)
\* ------------------------------------------------------------------------
Headings == << <<"A">>, <<"B">> >>

HeadingOf(i) == Headings[((i - 1) % Len(Headings)) + 1]

\* outlines the outliner may return: 0..MaxSections sections
Outlines == { [i \in 1..n |-> [heading |-> HeadingOf(i), level |-> 1]] : n \in 0..MaxSections }

DraftBodies == { <<"a", "b">> }

WriterResponses == { None, Some(<<"r">>) }

\* token usage as reported by generateText; agent and caller name the agent
\* that spent the tokens and the stage whose call triggered it
StageUsage(role) ==
    [promptTokens |-> 2, completionTokens |-> 1, agent |-> role, caller |-> role]

\* call names the stage call whose research tool ran the researcher
ResearchUsage(role, call) ==
    [promptTokens |-> 1, completionTokens |-> 1, agent |-> "RESEARCHER", caller |-> role,
     call |-> call]

\* what editorInChief.run may return
FinalReviews ==
    { [finalArticleTitle |-> <<"T">>, globalFeedback |-> gf, proposedEdits |-> pe] :
        gf \in { <<>>, << <<"g">> >> },
        pe \in { <<>>,
                 << [sectionHeading |-> <<"A">>, originalText |-> <<"a">>,
                     newText |-> <<"c">>, priority |-> "HIGH"] >>,
                 << [sectionHeading |-> <<"B">>, originalText |-> <<"c">>,
                     newText |-> <<"a">>, priority |-> "LOW"] >> } }

FsError == [role |-> "FS", section |-> 0]
StageError(role, i) == [role |-> role, section |-> i]

VARIABLES
    pc,               \* position of writeArticle
    articleOutline,   \* sections of the outline
    contentStrategy,  \* plans produced so far
    st,               \* per section instance: idle / writer / editor / returned / thrown
    iterations,
    isApproved,
    currentContent,
    currentFeedback,
    callInput,        \* input of the call each instance is awaiting
    promiseAll,       \* the Promise.all over the section instances
    sectionContents,  \* result of the awaited Promise.all
    finalReviewInput, \* writerOutput.sections handed to editorInChief.run
    finalReview,      \* what editorInChief.run returned
    finalMarkdown,    \* the rendered document
    result,           \* value returned by writeArticle
    raised,           \* error thrown by writeArticle
    usages,           \* the usage ledger
    collector,        \* researcherUsages array of the call in flight, per caller
    started,          \* number of agent calls started, per role
    firstFailure,     \* the first error that occurred in the run
    verdicts,         \* per section instance: approved flags of its reviews
    incurred,         \* bag of usages reported by completed calls
    completed,        \* number of agent calls that returned, per role
    researchCalls,    \* number of research sub-calls made
    toolFailures,     \* number of web-search and URL-fetch calls that failed
    searchCache,      \* webSearch: the module's Map from cache key to response
    searchCalls,      \* webSearch: the calls made, each idle, awaiting the provider or done
    succeeded         \* webSearch: keys for which a call has returned the provider's response

\* the state of the web-search module
searchVars == << searchCache, searchCalls, succeeded >>

vars == << pc, articleOutline, contentStrategy, st, iterations, isApproved,
           currentContent, currentFeedback, callInput, promiseAll, sectionContents,
           finalReviewInput, finalReview, finalMarkdown, result, raised, usages,
           collector, started, completed, firstFailure, verdicts,
           incurred, researchCalls, toolFailures,
                    searchVars >>

\* the state of a run of writeArticle
runVars == << pc, articleOutline, contentStrategy, st, iterations, isApproved,
              currentContent, currentFeedback, callInput, promiseAll, sectionContents,
              finalReviewInput, finalReview, finalMarkdown, result, raised, usages,
              collector, started, completed, firstFailure, verdicts,
              incurred, researchCalls, toolFailures >>

instVars == << st, iterations, isApproved, currentContent, currentFeedback,
               callInput, promiseAll, verdicts >>

\* ------------------------------------------------------------------------
\* Text
\* ------------------------------------------------------------------------
\* String.prototype.indexOf: position (from 0) of the first occurrence, -1 if none
IndexOf(s, pat) ==
    LET hits == { i \in 0..(Len(s) - Len(pat)) : SubSeq(s, i + 1, i + Len(pat)) = pat }
    IN IF hits = {} THEN -1 ELSE CHOOSE i \in hits : \A j \in hits : i <= j

Includes(s, pat) == IndexOf(s, pat) >= 0

\* GetSubstitution of String.prototype.replace for a string pattern (no capture
\* groups): $$ is a dollar sign, $& the matched text, $` the text before the
\* match, $' the text after it; any other character is copied
RECURSIVE GetSubstitution(_, _, _, _, _)
GetSubstitution(matched, str, position, replacement, k) ==
    IF k > Len(replacement) THEN <<>>
    ELSE IF replacement[k] = "$" /\ k < Len(replacement) /\ replacement[k + 1] \in {"$", "&", "`", "'"}
         THEN (CASE replacement[k + 1] = "$" -> <<"$">>
                 [] replacement[k + 1] = "&" -> matched
                 [] replacement[k + 1] = "`" -> SubSeq(str, 1, position)
                 [] replacement[k + 1] = "'" -> SubSeq(str, position + Len(matched) + 1, Len(str)))
              \o GetSubstitution(matched, str, position, replacement, k + 2)
         ELSE << replacement[k] >> \o GetSubstitution(matched, str, position, replacement, k + 1)

\* String.prototype.replace(searchValue, replaceValue) with two strings: only
\* the first occurrence is replaced; no occurrence leaves the string as it is
Replace_MissAppends(str, searchValue, replaceValue) ==
    LET position == IndexOf(str, searchValue)
    IN IF position < 0 THEN str \o replaceValue
       ELSE SubSeq(str, 1, position)
            \o GetSubstitution(searchValue, str, position, replaceValue, 1)
            \o SubSeq(str, position + Len(searchValue) + 1, Len(str))

\* String.prototype.replace with a string pattern: the first occurrence only
Replace(str, searchValue, replaceValue) ==
    LET position == IndexOf(str, searchValue)
    IN IF position < 0 THEN str
       ELSE SubSeq(str, 1, position)
            \o GetSubstitution(searchValue, str, position, replaceValue, 1)
            \o SubSeq(str, position + Len(searchValue) + 1, Len(str))

\* ------------------------------------------------------------------------
\* Numbers: the costs are JavaScript numbers, IEEE 754 binary64 values with
\* round-to-nearest-even.  A natural number is a little-endian sequence of
\* limbs in base 2^13; a positive double is [m, e] with value m * 2^e and m
\* of exactly 53 bits; zero is [m |-> <<>>, e |-> 0].
\* ------------------------------------------------------------------------
LimbBits == 13
Base == 8192
Precision == 53

RECURSIVE Pow2(_)
Pow2(k) == IF k = 0 THEN 1 ELSE 2 * Pow2(k - 1)

RECURSIVE Strip(_)
Strip(a) == IF a # <<>> /\ a[Len(a)] = 0 THEN Strip(SubSeq(a, 1, Len(a) - 1)) ELSE a

RECURSIVE ToLimbs(_)
ToLimbs(n) == IF n = 0 THEN <<>> ELSE <<n % Base>> \o ToLimbs(n \div Base)

Limb(a, i) == IF i <= Len(a) THEN a[i] ELSE 0

RECURSIVE AddCarry(_, _, _, _)
AddCarry(a, b, i, carry) ==
    IF i > Len(a) /\ i > Len(b)
    THEN (IF carry = 0 THEN <<>> ELSE <<carry>>)
    ELSE LET t == Limb(a, i) + Limb(b, i) + carry
         IN <<t % Base>> \o AddCarry(a, b, i + 1, t \div Base)

AddN(a, b) == AddCarry(a, b, 1, 0)

RECURSIVE MulSmallCarry(_, _, _, _)
MulSmallCarry(a, k, i, carry) ==
    IF i > Len(a)
    THEN ToLimbs(carry)
    ELSE LET t == a[i] * k + carry
         IN <<t % Base>> \o MulSmallCarry(a, k, i + 1, t \div Base)

\* a * k for 0 <= k < Base
MulSmall(a, k) == Strip(MulSmallCarry(a, k, 1, 0))

Zeros(n) == [i \in 1..n |-> 0]

RECURSIVE MulFrom(_, _, _)
MulFrom(a, b, j) ==
    IF j > Len(b) THEN <<>>
    ELSE AddN(IF b[j] = 0 THEN <<>> ELSE Zeros(j - 1) \o MulSmall(a, b[j]), MulFrom(a, b, j + 1))

MulN(a, b) == Strip(MulFrom(a, b, 1))

\* quotient and remainder of a by d, for 0 < d < 2^17, from the top limb down
RECURSIVE DivSmallFrom(_, _, _, _)
DivSmallFrom(a, d, i, r) ==
    IF i = 0 THEN [q |-> <<>>, r |-> r]
    ELSE LET t == r * Base + a[i]
             rest == DivSmallFrom(a, d, i - 1, t % d)
         IN [q |-> Append(rest.q, t \div d), r |-> rest.r]

DivSmall(a, d) ==
    LET res == DivSmallFrom(a, d, Len(a), 0)
    IN [q |-> Strip(res.q), r |-> res.r]

RECURSIVE BitLenInt(_)
BitLenInt(n) == IF n = 0 THEN 0 ELSE 1 + BitLenInt(n \div 2)

BitLen(a) == IF a = <<>> THEN 0 ELSE LimbBits * (Len(a) - 1) + BitLenInt(a[Len(a)])

ShiftLeft(a, k) ==
    IF a = <<>> THEN <<>>
    ELSE Zeros(k \div LimbBits) \o MulSmall(a, Pow2(k % LimbBits))

\* a shifted right by k bits, and whether a one bit was shifted out
ShiftRight(a, k) ==
    LET n == k \div LimbBits
        low == SubSeq(a, 1, IF n < Len(a) THEN n ELSE Len(a))
        high == SubSeq(a, n + 1, Len(a))
        res == DivSmall(high, Pow2(k % LimbBits))
    IN [q |-> res.q, lost |-> res.r # 0 \/ \E i \in 1..Len(low) : low[i] # 0]

IsOdd(a) == a # <<>> /\ a[1] % 2 = 1

FZero == [m |-> <<>>, e |-> 0]

\* the double nearest to n * 2^e (plus a positive fraction of its last bit when
\* sticky), ties to even; with sticky, n must have more than Precision + 1 bits
Round(n, e, sticky) ==
    LET len == BitLen(n)
    IN IF len = 0 THEN FZero
       ELSE IF len <= Precision
       THEN [m |-> ShiftLeft(n, Precision - len), e |-> e - (Precision - len)]
       ELSE LET drop == len - Precision
                s == ShiftRight(n, drop - 1)
                guard == IsOdd(s.q)
                kept == DivSmall(s.q, 2).q
                up == guard /\ (s.lost \/ sticky \/ IsOdd(kept))
                m == IF up THEN AddN(kept, <<1>>) ELSE kept
            IN IF BitLen(m) > Precision
               THEN [m |-> DivSmall(m, 2).q, e |-> e + drop + 1]
               ELSE [m |-> m, e |-> e + drop]

\* Number(n) for an integer 0 <= n < 2^31
FromInt(n) == Round(ToLimbs(n), 0, FALSE)

\* x + y
FAdd(x, y) ==
    IF x.m = <<>> THEN y
    ELSE IF y.m = <<>> THEN x
    ELSE IF x.e >= y.e
         THEN Round(AddN(ShiftLeft(x.m, x.e - y.e), y.m), y.e, FALSE)
         ELSE Round(AddN(ShiftLeft(y.m, y.e - x.e), x.m), x.e, FALSE)

\* x * y
FMul(x, y) == Round(MulN(x.m, y.m), x.e + y.e, FALSE)

\* x / (d1 * d2) for integers 0 < d1, d2 < 2^17
FDivInt(x, d1, d2) ==
    LET n == ShiftLeft(x.m, 3 * LimbBits)
        first == DivSmall(n, d1)
        second == DivSmall(first.q, d2)
    IN Round(second.q, x.e - 3 * LimbBits, first.r # 0 \/ second.r # 0)


\* ------------------------------------------------------------------------
\* calculateUsage
\* ------------------------------------------------------------------------
\* Object.entries(usage): the roles in the order the ledger was created with
RoleOrder == <<"OUTLINER", "CONTENT_STRATEGIST", "WRITER", "EDITOR", "EDITOR_IN_CHIEF">>

COST_PER_1M_TOKENS(model) ==
    CASE model = "o1" -> [input |-> FromInt(15), output |-> FromInt(60)]
      [] model = "gpt-4o" -> [input |-> FDivInt(FromInt(25), 10, 1), output |-> FromInt(10)]
      [] model = "gpt-4o-mini" -> [input |-> FDivInt(FromInt(15), 100, 1),
                                   output |-> FDivInt(FromInt(6), 10, 1)]

ModelOf_AlwaysGpt4o(role) == "gpt-4o"

ModelOf(role) == IF role \in {"OUTLINER", "EDITOR_IN_CHIEF"} THEN "o1" ELSE "gpt-4o"

calculateModelCost(usage, model) ==
    LET costs == COST_PER_1M_TOKENS(model)
        inputCost == FMul(FDivInt(FromInt(usage.promptTokens), 1000, 1000), costs.input)
        outputCost == FMul(FDivInt(FromInt(usage.completionTokens), 1000, 1000), costs.output)
    IN FAdd(inputCost, outputCost)

\* total + cost(u1) + cost(u2) + ..., added from left to right
RECURSIVE SumCosts(_, _, _)
SumCosts(total, tokenUsages, model) ==
    IF tokenUsages = <<>> THEN total
    ELSE SumCosts(FAdd(total, calculateModelCost(Head(tokenUsages), model)),
                  Tail(tokenUsages), model)

calculateResearcherCost(researcherUsages) ==
    IF Len(researcherUsages) = 0 THEN FZero
    ELSE SumCosts(FZero, researcherUsages, "gpt-4o-mini")

\* the usages charged at the role's own rate: the agentUsage of every record that has one
RECURSIVE SelfCharges(_)
SelfCharges(records) ==
    IF records = <<>> THEN <<>>
    ELSE Head(records).agentUsage \o SelfCharges(Tail(records))

\* the usages charged at the researcher's rate: the nested usages of every record
RECURSIVE ResearchCharges(_)
ResearchCharges(records) ==
    IF records = <<>> THEN <<>>
    ELSE Head(records).researcherUsages \o ResearchCharges(Tail(records))

SelfCost(records, model) == SumCosts(FZero, SelfCharges(records), model)

RECURSIVE ResearcherCost(_, _)
ResearcherCost(total, records) ==
    IF records = <<>> THEN total
    ELSE ResearcherCost(FAdd(total, calculateResearcherCost(Head(records).researcherUsages)),
                        Tail(records))

RECURSIVE SumField(_, _, _, _)
SumField(total, costs, field, k) ==
    IF k > Len(RoleOrder) THEN total
    ELSE SumField(FAdd(total, costs[RoleOrder[k]][field]), costs, field, k + 1)

calculateUsage(usage) ==
    LET costs == [role \in AgentRole |->
                    [selfCost |-> SelfCost(usage[role], ModelOf(role)),
                     researcherCost |-> ResearcherCost(FZero, usage[role])]]
    IN [roles |-> costs,
        total |-> [agentCosts |-> SumField(FZero, costs, "selfCost", 1),
                   researchCosts |-> SumField(FZero, costs, "researcherCost", 1)]]

\* the cost writeArticle returns with the document, computed from the ledger
\* as it is when the run returns
ReturnedCost(ledger) ==
    LET costs == calculateUsage(ledger)
    IN FAdd(costs.total.agentCosts, costs.total.researchCosts)


\* ------------------------------------------------------------------------
\* applyEditsAndGenerateMarkdown
\* ------------------------------------------------------------------------
\* the inner loop: every edit whose sectionHeading is the section's heading is
\* applied, in list order, to the body left by the edits before it
RECURSIVE EditedBody_AnyHeading(_, _, _)
EditedBody_AnyHeading(section, sectionContent, proposedEdits) ==
    IF proposedEdits = <<>> THEN sectionContent
    ELSE LET edit == Head(proposedEdits)
         IN EditedBody_AnyHeading(section,
                                  Replace(sectionContent, edit.originalText, edit.newText),
                                  Tail(proposedEdits))

RECURSIVE EditedBody_LaterFirst(_, _, _)
EditedBody_LaterFirst(section, sectionContent, proposedEdits) ==
    IF proposedEdits = <<>> THEN sectionContent
    ELSE LET edit == Head(proposedEdits)
             rest == EditedBody_LaterFirst(section, sectionContent, Tail(proposedEdits))
         IN IF edit.sectionHeading = section.heading
            THEN Replace(rest, edit.originalText, edit.newText)
            ELSE rest

RECURSIVE EditedBody(_, _, _)
EditedBody(section, sectionContent, proposedEdits) ==
    IF proposedEdits = <<>> THEN sectionContent
    ELSE LET edit == Head(proposedEdits)
         IN EditedBody(section,
                       IF edit.sectionHeading = section.heading
                       THEN Replace(sectionContent, edit.originalText, edit.newText)
                       ELSE sectionContent,
                       Tail(proposedEdits))

SectionBlock(section, proposedEdits) ==
    <<"#", "#", " ">> \o section.heading \o <<"\n", "\n">>
    \o EditedBody(section, section.content, proposedEdits) \o <<"\n", "\n">>

RECURSIVE SectionBlocks_EditedOnly(_, _)
SectionBlocks_EditedOnly(sections, proposedEdits) ==
    IF sections = <<>> THEN <<>>
    ELSE (IF \E k \in DOMAIN proposedEdits :
                proposedEdits[k].sectionHeading = Head(sections).heading
          THEN SectionBlock(Head(sections), proposedEdits)
          ELSE <<>>)
         \o SectionBlocks_EditedOnly(Tail(sections), proposedEdits)

\* the outer loop: one block per section, in the order of the list
RECURSIVE SectionBlocks(_, _)
SectionBlocks(sections, proposedEdits) ==
    IF sections = <<>> THEN <<>>
    ELSE SectionBlock(Head(sections), proposedEdits) \o SectionBlocks(Tail(sections), proposedEdits)

RECURSIVE FeedbackLines(_)
FeedbackLines(globalFeedback) ==
    IF globalFeedback = <<>> THEN <<>>
    ELSE <<"-", " ">> \o Head(globalFeedback) \o <<"\n">> \o FeedbackLines(Tail(globalFeedback))

EditorialNotesHeading ==
    <<"#", "#", " ", "E", "d", "i", "t", "o", "r", "i", "a", "l", " ", "N", "o", "t", "e", "s">>

ReferencesHeading ==
    <<"#", "#", " ", "R", "e", "f", "e", "r", "e", "n", "c", "e", "s">>

EditorialNotes(globalFeedback) ==
    IF Len(globalFeedback) > 0
    THEN EditorialNotesHeading \o <<"\n", "\n">> \o FeedbackLines(globalFeedback) \o <<"\n">>
    ELSE <<>>

RECURSIVE AllReferences(_)
AllReferences(sections) ==
    IF sections = <<>> THEN <<>>
    ELSE Head(sections).references \o AllReferences(Tail(sections))

RECURSIVE ReferenceLines(_)
ReferenceLines(refs) ==
    IF refs = <<>> THEN <<>>
    ELSE <<"-", " ", "[">> \o Head(refs).title \o <<"]", "(">> \o Head(refs).url \o <<")", "\n">>
         \o ReferenceLines(Tail(refs))

References(sections) ==
    IF Len(AllReferences(sections)) > 0
    THEN ReferencesHeading \o <<"\n", "\n">> \o ReferenceLines(AllReferences(sections)) \o <<"\n">>
    ELSE <<>>

applyEditsAndGenerateMarkdown(title, sections, proposedEdits, globalFeedback) ==
    <<"#", " ">> \o title \o <<"\n", "\n">>
    \o SectionBlocks(sections, proposedEdits)
    \o EditorialNotes(globalFeedback)
    \o References(sections)

\* ------------------------------------------------------------------------
\* Promise.all over the section instances
\* ------------------------------------------------------------------------
PromiseAllResolve_CompletionOrder(p, index, x) ==
    [p EXCEPT !.values = [@ EXCEPT ![Len(p.order) + 1] = Some(x)],
              !.order = Append(@, index),
              !.remaining = @ - 1,
              !.state = IF @ = "pending" /\ p.remaining = 1 THEN "fulfilled" ELSE @]

\* an element promise fulfils: its value is stored at the element's index; the
\* last one to fulfil settles a still pending Promise.all
PromiseAllResolve(p, index, x) ==
    [p EXCEPT !.values = [@ EXCEPT ![index] = Some(x)],
              !.order = Append(@, index),
              !.remaining = @ - 1,
              !.state = IF @ = "pending" /\ p.remaining = 1 THEN "fulfilled" ELSE @]

\* an element promise rejects: the first rejection settles the Promise.all
PromiseAllReject(p, err) ==
    IF p.state = "pending"
    THEN [p EXCEPT !.state = "rejected", !.reason = Some(err)]
    ELSE p

\* ------------------------------------------------------------------------
\* webSearch
\* ------------------------------------------------------------------------
MaxSearches == 3

SearchSlots == 1..MaxSearches

Queries == { <<"q">>, <<"r">> }

\* the params object the web_search tool passes: every key is there, the
\* optional ones possibly undefined
SearchParams == [searchDepth : {Some("basic")}, topic : {None, Some("news")}]

\* what tavily.search may resolve to
Responses == {"r1", "r2"}

FailureMessage == "Web search tool failed to return results."

\* Object.keys(params).sort()
SortedKeys == <<"searchDepth", "topic">>

\* JSON.stringify(params, keys): the properties in the order of keys, those
\* with an undefined value left out
RECURSIVE Stringify(_, _, _)
Stringify(params, keys, first) ==
    IF keys = <<>> THEN <<"}">>
    ELSE IF params[Head(keys)] = None THEN Stringify(params, Tail(keys), first)
    ELSE (IF first THEN <<>> ELSE <<",">>)
         \o <<Head(keys), ":", params[Head(keys)][1]>>
         \o Stringify(params, Tail(keys), FALSE)

\* the md5 digest of `${query}-${paramsString}`, taken as free of collisions
generateCacheKey(query, params) ==
    [md5 |-> query \o <<"-">> \o <<"{">> \o Stringify(params, SortedKeys, TRUE)]

Has_Never(cache, cacheKey) == FALSE

\* searchCache.has(cacheKey)
Has(cache, cacheKey) == cacheKey \in DOMAIN cache

\* searchCache.set(cacheKey, response)
Set(cache, cacheKey, response) ==
    [k \in DOMAIN cache \cup {cacheKey} |-> IF k = cacheKey THEN response ELSE cache[k]]

NoSearch == [pc |-> "idle", cacheKey |-> None, called |-> FALSE, out |-> None]

\* the module as loaded: an empty cache and no call made
SearchIdle ==
    /\ searchCache = << >>
    /\ searchCalls = [s \in SearchSlots |-> NoSearch]
    /\ succeeded = {}

\* ------------------------------------------------------------------------
\* writeArticle
\* ------------------------------------------------------------------------
Callers == 0..MaxSections   \* 0 is writeArticle itself, i > 0 the i-th section instance

\* the stage call of caller w that is in flight: its section (0 for the calls
\* writeArticle makes itself) and its number among the calls of that caller
CallId(w) ==
    [section |-> w,
     n |-> IF w > 0 THEN iterations[w]
           ELSE IF pc = "strategy" THEN Len(contentStrategy) + 1 ELSE 1]

CollectorOf_PerAgent(w) == IF w = 0 THEN 0 ELSE 1

\* the usages array of the run of caller w: getResearchTool makes a new one
\* in every run
CollectorOf(w) == w

Push_Overwrites(ledger, role, record) == [ledger EXCEPT ![role] = <<record>>]

\* usages[role].push(record)
Push(ledger, role, record) == [ledger EXCEPT ![role] = Append(@, record)]

UsageRecord_DropsResearch(role, researcherUsages) ==
    [agentUsage |-> Some(StageUsage(role)), researcherUsages |-> <<>>]

\* the usage an agent's run returns: its own usage and the research tool's array
UsageRecord(role, researcherUsages) ==
    [agentUsage |-> Some(StageUsage(role)), researcherUsages |-> researcherUsages]

Bump(f, role, n) == [f EXCEPT ![role] = @ + n]

FoldDone_AfterFirst(outline, plans) == Len(plans) >= 1 \/ Len(outline) = 0

\* the for-of loop over articleOutline.sections has no section left
FoldDone(outline, plans) == Len(plans) = Len(outline)

LoopContinues_SkipsFirstPass(approved, n) == ~approved /\ 0 < n /\ n < MAX_ITERATIONS

LoopContinues_IgnoresApproval(approved, n) == n < MAX_ITERATIONS

LoopContinues_OffByOne(approved, n) == ~approved /\ n <= MAX_ITERATIONS

LoopContinues_IgnoresBound(approved, n) == ~approved

\* condition of the revision while-loop
LoopContinues(approved, n) == ~approved /\ n < MAX_ITERATIONS

RevisionRequested_OnlyFirst(approved, n) == ~approved /\ n < 2

\* condition under which a rejected draft becomes the feedback of the next one
RevisionRequested(approved, n) == ~approved /\ n < MAX_ITERATIONS

Init ==
    /\ pc = "start"
    /\ articleOutline = <<>>
    /\ contentStrategy = <<>>
    /\ st = [i \in Sections |-> "idle"]
    /\ iterations = [i \in Sections |-> 0]
    /\ isApproved = [i \in Sections |-> FALSE]
    /\ currentContent = [i \in Sections |-> None]
    /\ currentFeedback = [i \in Sections |-> None]
    /\ callInput = [w \in Callers |-> None]
    /\ promiseAll = [state |-> "none", values |-> <<>>, order |-> <<>>, remaining |-> 0,
                     reason |-> None]
    /\ sectionContents = None
    /\ finalReviewInput = None
    /\ finalReview = None
    /\ finalMarkdown = None
    /\ result = None
    /\ raised = None
    /\ usages = [role \in AgentRole |-> <<>>]
    /\ collector = [w \in Callers |-> <<>>]
    /\ started = [role \in AgentRole |-> 0]
    /\ completed = [role \in AgentRole |-> 0]
    /\ firstFailure = None
    /\ verdicts = [i \in Sections |-> <<>>]
    /\ incurred = EmptyBag
    /\ researchCalls = 0
    /\ toolFailures = 0
    /\ SearchIdle

\* the first error of a run is remembered
Record(first, err) == IF first = None THEN Some(err) ELSE first

Catch_ReturnsPartial(err, catchOk) ==
    /\ pc' = "returned"
    /\ raised' = None
    /\ firstFailure' = Record(firstFailure, err)

\* the catch block: the ledger and its costs are written out, then the error
\* is rethrown; with catchOk false one of the two writes throws instead
Catch(err, catchOk) ==
    /\ pc' = "thrown"
    /\ raised' = Some(IF catchOk THEN err ELSE FsError)
    /\ firstFailure' = Record(firstFailure, err)

\* Phase 1 starts: outliner.run is called
Start ==
    /\ pc = "start"
    /\ pc' = "outline"
    /\ started' = Bump(started, "OUTLINER", 1)
    /\ collector' = [collector EXCEPT ![CollectorOf(0)] = <<>>]
    /\ callInput' = [callInput EXCEPT ![0] = Some([role |-> "OUTLINER"])]
    /\ UNCHANGED << articleOutline, contentStrategy, st, iterations, isApproved,
                    currentContent, currentFeedback, promiseAll, sectionContents,
                    finalReviewInput, finalReview, finalMarkdown, result, raised,
                    usages, completed, firstFailure, verdicts, incurred,
                    researchCalls, toolFailures,
                    searchVars >>

\* role of the agent call that caller w is awaiting (None when it awaits none)
RoleInFlight(w) ==
    IF w = 0
    THEN (CASE pc = "outline" -> Some("OUTLINER")
            [] pc = "strategy" -> Some("CONTENT_STRATEGIST")
            [] pc = "finalReview" -> Some("EDITOR_IN_CHIEF")
            [] OTHER -> None)
    ELSE (CASE st[w] = "writer" -> Some("WRITER")
            [] st[w] = "editor" -> Some("EDITOR")
            [] OTHER -> None)

\* the agent in flight invokes the research tool: the researcher's usage is
\* pushed on the usages array that getResearchTool created for this run
Research(w) ==
    /\ RoleInFlight(w) # None
    /\ researchCalls + toolFailures < MaxResearch
    /\ researchCalls' = researchCalls + 1
    /\ collector' = [collector EXCEPT ![CollectorOf(w)] = Append(@, ResearchUsage(RoleInFlight(w)[1], CallId(w)))]
    /\ incurred' = incurred (+) SetToBag({ResearchUsage(RoleInFlight(w)[1], CallId(w))})
    /\ UNCHANGED << pc, articleOutline, contentStrategy, st, iterations, isApproved,
                    currentContent, currentFeedback, callInput, promiseAll,
                    sectionContents, finalReviewInput, finalReview, finalMarkdown,
                    result, raised, usages, started, completed, firstFailure,
                    verdicts, toolFailures, searchVars >>

\* the tools whose failures are caught where they occur
Tools == {"webSearch", "getUrlContent"}

\* a web search or a URL fetch made for the agent call in flight fails:
\* webSearch and getUrlContent catch the error, log it and return a text
\* saying so, which the calling model reads as the tool's result
ToolFail(w, tool) ==
    /\ RoleInFlight(w) # None
    /\ researchCalls + toolFailures < MaxResearch
    /\ tool \in Tools
    /\ toolFailures' = toolFailures + 1
    /\ UNCHANGED << pc, articleOutline, contentStrategy, st, iterations, isApproved,
                    currentContent, currentFeedback, callInput, promiseAll,
                    sectionContents, finalReviewInput, finalReview, finalMarkdown,
                    result, raised, usages, collector, started, completed,
                    firstFailure, verdicts, incurred, researchCalls, searchVars >>

\* the section instances are spawned: each runs up to its first writer call
SpawnInstances(plans) ==
    LET n == Len(plans)
        enters == LoopContinues(FALSE, 0)
    IN /\ st' = [i \in Sections |-> IF i > n THEN "idle" ELSE IF enters THEN "writer" ELSE "thrown"]
       /\ iterations' = [i \in Sections |-> IF i <= n /\ enters THEN 1 ELSE 0]
       /\ isApproved' = [i \in Sections |-> FALSE]
       /\ currentContent' = [i \in Sections |-> None]
       /\ currentFeedback' = [i \in Sections |-> None]
       /\ verdicts' = [i \in Sections |-> <<>>]
       /\ callInput' = [w \in Callers |->
                          IF w \in 1..n /\ enters
                          THEN Some([role |-> "WRITER", plan |-> plans[w], feedback |-> None])
                          ELSE None]
       /\ collector' = [w \in Callers |-> <<>>]
       /\ started' = Bump(started, "WRITER", IF enters THEN n ELSE 0)
       /\ promiseAll' = [state |-> IF n = 0 THEN "fulfilled"
                                   ELSE IF enters THEN "pending" ELSE "rejected",
                         values |-> [i \in 1..n |-> None],
                         order |-> <<>>,
                         remaining |-> n,
                         reason |-> IF n > 0 /\ ~enters THEN Some(StageError("NO_CONTENT", 1)) ELSE None]
       /\ pc' = "fanout"

CallStrategist_OmitsPrevious(outline, plans) ==
    /\ pc' = "strategy"
    /\ started' = Bump(started, "CONTENT_STRATEGIST", 1)
    /\ collector' = [collector EXCEPT ![CollectorOf(0)] = <<>>]
    /\ callInput' = [callInput EXCEPT ![0] =
                        Some([role |-> "CONTENT_STRATEGIST",
                              section |-> outline[Len(plans) + 1],
                              previousStrategies |-> <<>>])]
    /\ UNCHANGED << st, iterations, isApproved, currentContent, currentFeedback,
                    promiseAll, verdicts >>

\* the next strategist call of the Strategy fold is made
CallStrategist(outline, plans) ==
    /\ pc' = "strategy"
    /\ started' = Bump(started, "CONTENT_STRATEGIST", 1)
    /\ collector' = [collector EXCEPT ![CollectorOf(0)] = <<>>]
    /\ callInput' = [callInput EXCEPT ![0] =
                        Some([role |-> "CONTENT_STRATEGIST",
                              section |-> outline[Len(plans) + 1],
                              previousStrategies |-> plans])]
    /\ UNCHANGED << st, iterations, isApproved, currentContent, currentFeedback,
                    promiseAll, verdicts >>

\* outliner.run returns
OutlineReturn(outline, bodyOk, catchOk) ==
    /\ pc = "outline"
    /\ bodyOk => catchOk
    /\ usages' = Push(usages, "OUTLINER", UsageRecord("OUTLINER", collector[CollectorOf(0)]))
    /\ completed' = Bump(completed, "OUTLINER", 1)
    /\ incurred' = incurred (+) SetToBag({StageUsage("OUTLINER")})
    /\ articleOutline' = outline
    /\ IF ~bodyOk
       THEN /\ Catch(FsError, catchOk)
            /\ UNCHANGED << instVars, collector, started >>
       ELSE /\ IF FoldDone(outline, <<>>)
               THEN SpawnInstances(<<>>)
               ELSE CallStrategist(outline, <<>>)
            /\ UNCHANGED << raised, firstFailure >>
    /\ UNCHANGED << contentStrategy, sectionContents, finalReviewInput, finalReview,
                    finalMarkdown, result, researchCalls, toolFailures,
                    searchVars >>

\* outliner.run fails
OutlineFail(catchOk) ==
    /\ pc = "outline"
    /\ Catch(StageError("OUTLINER", 0), catchOk)
    /\ UNCHANGED << articleOutline, contentStrategy, instVars, sectionContents,
                    finalReviewInput, finalReview, finalMarkdown, result, usages,
                    collector, started, completed, incurred, researchCalls, toolFailures,
                    searchVars >>

\* contentStrategist.run returns for the next section of the outline
StrategyReturn(bodyOk, catchOk) ==
    LET i == Len(contentStrategy) + 1
        plan == [heading |-> articleOutline[i].heading, keyPoints |-> <<>>, section |-> i]
    IN /\ pc = "strategy"
       /\ bodyOk => catchOk
       /\ usages' = Push(usages, "CONTENT_STRATEGIST",
                         UsageRecord("CONTENT_STRATEGIST", collector[CollectorOf(0)]))
       /\ completed' = Bump(completed, "CONTENT_STRATEGIST", 1)
       /\ incurred' = incurred (+) SetToBag({StageUsage("CONTENT_STRATEGIST")})
       /\ contentStrategy' = Append(contentStrategy, plan)
       /\ IF ~bodyOk
          THEN /\ Catch(FsError, catchOk)
               /\ UNCHANGED << instVars, collector, started >>
          ELSE /\ IF FoldDone(articleOutline, contentStrategy')
                  THEN SpawnInstances(contentStrategy')
                  ELSE CallStrategist(articleOutline, contentStrategy')
               /\ UNCHANGED << raised, firstFailure >>
       /\ UNCHANGED << articleOutline, sectionContents, finalReviewInput, finalReview,
                       finalMarkdown, result, researchCalls, toolFailures,
                    searchVars >>

StrategyFail_Retries(catchOk) ==
    LET err == StageError("CONTENT_STRATEGIST", Len(contentStrategy) + 1)
    IN /\ pc = "strategy"
       /\ catchOk
       /\ firstFailure' = Record(firstFailure, err)
       /\ started' = Bump(started, "CONTENT_STRATEGIST", 1)
       /\ collector' = [collector EXCEPT ![CollectorOf(0)] = <<>>]
       /\ UNCHANGED << pc, raised, articleOutline, contentStrategy, instVars,
                       sectionContents, finalReviewInput, finalReview, finalMarkdown,
                       result, usages, completed, incurred, researchCalls, toolFailures,
                    searchVars >>

\* contentStrategist.run fails
StrategyFail(catchOk) ==
    LET err == StageError("CONTENT_STRATEGIST", Len(contentStrategy) + 1)
    IN /\ pc = "strategy"
       /\ Catch(err, catchOk)
       /\ UNCHANGED << articleOutline, contentStrategy, instVars, sectionContents,
                       finalReviewInput, finalReview, finalMarkdown, result, usages,
                       collector, started, completed, incurred, researchCalls, toolFailures,
                    searchVars >>

\* variables of writeArticle's own frame, untouched by a section instance
mainVars == << pc, articleOutline, contentStrategy, sectionContents, finalReviewInput,
               finalReview, finalMarkdown, result, raised >>

WriterReturn_KeepsFirstDraft(i, body, response) ==
    LET sectionPlan == contentStrategy[i]
        content == [heading |-> sectionPlan.heading, content |-> body, references |-> <<>>,
                    id |-> [section |-> i, draft |-> iterations[i]]]
    IN /\ st[i] = "writer"
       /\ usages' = Push(usages, "WRITER", UsageRecord("WRITER", collector[CollectorOf(i)]))
       /\ completed' = Bump(completed, "WRITER", 1)
       /\ incurred' = incurred (+) SetToBag({StageUsage("WRITER")})
       /\ currentContent' = [currentContent EXCEPT ![i] = IF @ = None THEN Some(content) ELSE @]
       /\ st' = [st EXCEPT ![i] = "editor"]
       /\ started' = Bump(started, "EDITOR", 1)
       /\ collector' = [collector EXCEPT ![CollectorOf(i)] = <<>>]
       /\ callInput' = [callInput EXCEPT ![i] =
                           Some([role |-> "EDITOR",
                                 content |-> content,
                                 feedback |->
                                    IF currentFeedback[i] = None THEN None
                                    ELSE Some([previousContent |-> currentFeedback[i][1].previousContent,
                                               previousFeedback |-> currentFeedback[i][1].editorFeedback,
                                               writerResponse |-> response])])]
       /\ UNCHANGED << mainVars, iterations, isApproved, currentFeedback, promiseAll,
                       firstFailure, verdicts, researchCalls, toolFailures,
                    searchVars >>

\* an agent call of section instance i fails: the instance's promise rejects
\* writer.run returns for section instance i; the editor is called at once
WriterReturn(i, body, response) ==
    LET sectionPlan == contentStrategy[i]
        content == [heading |-> sectionPlan.heading, content |-> body, references |-> <<>>,
                    id |-> [section |-> i, draft |-> iterations[i]]]
    IN /\ st[i] = "writer"
       /\ usages' = Push(usages, "WRITER", UsageRecord("WRITER", collector[CollectorOf(i)]))
       /\ completed' = Bump(completed, "WRITER", 1)
       /\ incurred' = incurred (+) SetToBag({StageUsage("WRITER")})
       /\ currentContent' = [currentContent EXCEPT ![i] = Some(content)]
       /\ st' = [st EXCEPT ![i] = "editor"]
       /\ started' = Bump(started, "EDITOR", 1)
       /\ collector' = [collector EXCEPT ![CollectorOf(i)] = <<>>]
       /\ callInput' = [callInput EXCEPT ![i] =
                           Some([role |-> "EDITOR",
                                 content |-> content,
                                 feedback |->
                                    IF currentFeedback[i] = None THEN None
                                    ELSE Some([previousContent |-> currentFeedback[i][1].previousContent,
                                               previousFeedback |-> currentFeedback[i][1].editorFeedback,
                                               writerResponse |-> response])])]
       /\ UNCHANGED << mainVars, iterations, isApproved, currentFeedback, promiseAll,
                       firstFailure, verdicts, researchCalls, toolFailures,
                    searchVars >>

\* an agent call of section instance i fails: the instance's promise rejects
InstanceFail_Retries(i, role) ==
    /\ RoleInFlight(i) = Some(role)
    /\ started[role] < 2 * MAX_ITERATIONS * MaxSections
    /\ started' = Bump(started, role, 1)
    /\ firstFailure' = Record(firstFailure, StageError(role, i))
    /\ collector' = [collector EXCEPT ![CollectorOf(i)] = <<>>]
    /\ UNCHANGED << mainVars, st, promiseAll, callInput, iterations, isApproved,
                    currentContent, currentFeedback, usages, completed, verdicts,
                    incurred, researchCalls, toolFailures,
                    searchVars >>

\* writer.run or editor.run of section instance i fails: the instance throws
InstanceFail(i, role) ==
    /\ RoleInFlight(i) = Some(role)
    /\ st' = [st EXCEPT ![i] = "thrown"]
    /\ promiseAll' = PromiseAllReject(promiseAll, StageError(role, i))
    /\ firstFailure' = Record(firstFailure, StageError(role, i))
    /\ callInput' = [callInput EXCEPT ![i] = None]
    /\ UNCHANGED << mainVars, iterations, isApproved, currentContent, currentFeedback,
                    usages, collector, started, completed, verdicts, incurred,
                    researchCalls, toolFailures,
                    searchVars >>

WriterFail(i) == InstanceFail(i, "WRITER")

EditorFail(i) == InstanceFail(i, "EDITOR")

EditorReturn_ThrowsWhenExhausted(i, approved) ==
    LET sectionPlan == contentStrategy[i]
        editorResult == [approved |-> approved, feedback |-> <<>>,
                         id |-> [section |-> i, review |-> iterations[i]]]
        feedback == IF ~approved /\ RevisionRequested(approved, iterations[i])
                    THEN Some([previousContent |-> currentContent[i][1],
                               editorFeedback |-> editorResult])
                    ELSE currentFeedback[i]
    IN /\ st[i] = "editor"
       /\ usages' = Push(usages, "EDITOR", UsageRecord("EDITOR", collector[CollectorOf(i)]))
       /\ completed' = Bump(completed, "EDITOR", 1)
       /\ incurred' = incurred (+) SetToBag({StageUsage("EDITOR")})
       /\ isApproved' = [isApproved EXCEPT ![i] = approved]
       /\ verdicts' = [verdicts EXCEPT ![i] = Append(@, approved)]
       /\ currentFeedback' = [currentFeedback EXCEPT ![i] = feedback]
       /\ IF LoopContinues(approved, iterations[i])
          THEN /\ iterations' = [iterations EXCEPT ![i] = @ + 1]
               /\ st' = [st EXCEPT ![i] = "writer"]
               /\ started' = Bump(started, "WRITER", 1)
               /\ collector' = [collector EXCEPT ![CollectorOf(i)] = <<>>]
               /\ callInput' = [callInput EXCEPT ![i] =
                                   Some([role |-> "WRITER", plan |-> sectionPlan,
                                         feedback |-> feedback])]
               /\ UNCHANGED << promiseAll, firstFailure >>
          ELSE /\ callInput' = [callInput EXCEPT ![i] = None]
               /\ UNCHANGED << iterations, started, collector >>
               /\ IF currentContent[i] # None /\ approved
                  THEN /\ st' = [st EXCEPT ![i] = "returned"]
                       /\ promiseAll' = PromiseAllResolve(promiseAll, i, currentContent[i][1])
                       /\ UNCHANGED firstFailure
                  ELSE /\ st' = [st EXCEPT ![i] = "thrown"]
                       /\ promiseAll' = PromiseAllReject(promiseAll, StageError("NO_CONTENT", i))
                       /\ firstFailure' = Record(firstFailure, StageError("NO_CONTENT", i))
       /\ UNCHANGED << mainVars, currentContent, researchCalls, toolFailures,
                    searchVars >>

EditorReturn_RebuttalEndsLoop(i, approved) ==
    LET sectionPlan == contentStrategy[i]
        editorResult == [approved |-> approved, feedback |-> <<>>,
                         id |-> [section |-> i, review |-> iterations[i]]]
        feedback == IF ~approved /\ RevisionRequested(approved, iterations[i])
                    THEN Some([previousContent |-> currentContent[i][1],
                               editorFeedback |-> editorResult])
                    ELSE currentFeedback[i]
    IN /\ st[i] = "editor"
       /\ usages' = Push(usages, "EDITOR", UsageRecord("EDITOR", collector[CollectorOf(i)]))
       /\ completed' = Bump(completed, "EDITOR", 1)
       /\ incurred' = incurred (+) SetToBag({StageUsage("EDITOR")})
       /\ isApproved' = [isApproved EXCEPT ![i] = approved]
       /\ verdicts' = [verdicts EXCEPT ![i] = Append(@, approved)]
       /\ currentFeedback' = [currentFeedback EXCEPT ![i] = feedback]
       /\ IF LoopContinues(approved, iterations[i])
             /\ (callInput[i][1].feedback = None
                 \/ callInput[i][1].feedback[1].writerResponse = None)
          THEN /\ iterations' = [iterations EXCEPT ![i] = @ + 1]
               /\ st' = [st EXCEPT ![i] = "writer"]
               /\ started' = Bump(started, "WRITER", 1)
               /\ collector' = [collector EXCEPT ![CollectorOf(i)] = <<>>]
               /\ callInput' = [callInput EXCEPT ![i] =
                                   Some([role |-> "WRITER", plan |-> sectionPlan,
                                         feedback |-> feedback])]
               /\ UNCHANGED << promiseAll, firstFailure >>
          ELSE /\ callInput' = [callInput EXCEPT ![i] = None]
               /\ UNCHANGED << iterations, started, collector >>
               /\ IF currentContent[i] # None
                  THEN /\ st' = [st EXCEPT ![i] = "returned"]
                       /\ promiseAll' = PromiseAllResolve(promiseAll, i, currentContent[i][1])
                       /\ UNCHANGED firstFailure
                  ELSE /\ st' = [st EXCEPT ![i] = "thrown"]
                       /\ promiseAll' = PromiseAllReject(promiseAll, StageError("NO_CONTENT", i))
                       /\ firstFailure' = Record(firstFailure, StageError("NO_CONTENT", i))
       /\ UNCHANGED << mainVars, currentContent, researchCalls, toolFailures,
                    searchVars >>

EditorReturn_SharedApproval(i, approved) ==
    LET sectionPlan == contentStrategy[i]
        editorResult == [approved |-> approved, feedback |-> <<>>,
                         id |-> [section |-> i, review |-> iterations[i]]]
        feedback == IF ~approved /\ RevisionRequested(approved, iterations[i])
                    THEN Some([previousContent |-> currentContent[i][1],
                               editorFeedback |-> editorResult])
                    ELSE currentFeedback[i]
    IN /\ st[i] = "editor"
       /\ usages' = Push(usages, "EDITOR", UsageRecord("EDITOR", collector[CollectorOf(i)]))
       /\ completed' = Bump(completed, "EDITOR", 1)
       /\ incurred' = incurred (+) SetToBag({StageUsage("EDITOR")})
       /\ isApproved' = [isApproved EXCEPT ![i] = approved]
       /\ verdicts' = [verdicts EXCEPT ![i] = Append(@, approved)]
       /\ currentFeedback' = [currentFeedback EXCEPT ![i] = feedback]
       /\ IF LoopContinues(approved \/ (\E j \in Sections : isApproved[j]), iterations[i])
          THEN /\ iterations' = [iterations EXCEPT ![i] = @ + 1]
               /\ st' = [st EXCEPT ![i] = "writer"]
               /\ started' = Bump(started, "WRITER", 1)
               /\ collector' = [collector EXCEPT ![CollectorOf(i)] = <<>>]
               /\ callInput' = [callInput EXCEPT ![i] =
                                   Some([role |-> "WRITER", plan |-> sectionPlan,
                                         feedback |-> feedback])]
               /\ UNCHANGED << promiseAll, firstFailure >>
          ELSE /\ callInput' = [callInput EXCEPT ![i] = None]
               /\ UNCHANGED << iterations, started, collector >>
               /\ IF currentContent[i] # None
                  THEN /\ st' = [st EXCEPT ![i] = "returned"]
                       /\ promiseAll' = PromiseAllResolve(promiseAll, i, currentContent[i][1])
                       /\ UNCHANGED firstFailure
                  ELSE /\ st' = [st EXCEPT ![i] = "thrown"]
                       /\ promiseAll' = PromiseAllReject(promiseAll, StageError("NO_CONTENT", i))
                       /\ firstFailure' = Record(firstFailure, StageError("NO_CONTENT", i))
       /\ UNCHANGED << mainVars, currentContent, researchCalls, toolFailures,
                    searchVars >>

\* editor.run returns for section instance i: the loop goes round or is left
EditorReturn(i, approved) ==
    LET sectionPlan == contentStrategy[i]
        editorResult == [approved |-> approved, feedback |-> <<>>,
                         id |-> [section |-> i, review |-> iterations[i]]]
        feedback == IF ~approved /\ RevisionRequested(approved, iterations[i])
                    THEN Some([previousContent |-> currentContent[i][1],
                               editorFeedback |-> editorResult])
                    ELSE currentFeedback[i]
    IN /\ st[i] = "editor"
       /\ usages' = Push(usages, "EDITOR", UsageRecord("EDITOR", collector[CollectorOf(i)]))
       /\ completed' = Bump(completed, "EDITOR", 1)
       /\ incurred' = incurred (+) SetToBag({StageUsage("EDITOR")})
       /\ isApproved' = [isApproved EXCEPT ![i] = approved]
       /\ verdicts' = [verdicts EXCEPT ![i] = Append(@, approved)]
       /\ currentFeedback' = [currentFeedback EXCEPT ![i] = feedback]
       /\ IF LoopContinues(approved, iterations[i])
          THEN /\ iterations' = [iterations EXCEPT ![i] = @ + 1]
               /\ st' = [st EXCEPT ![i] = "writer"]
               /\ started' = Bump(started, "WRITER", 1)
               /\ collector' = [collector EXCEPT ![CollectorOf(i)] = <<>>]
               /\ callInput' = [callInput EXCEPT ![i] =
                                   Some([role |-> "WRITER", plan |-> sectionPlan,
                                         feedback |-> feedback])]
               /\ UNCHANGED << promiseAll, firstFailure >>
          ELSE /\ callInput' = [callInput EXCEPT ![i] = None]
               /\ UNCHANGED << iterations, started, collector >>
               /\ IF currentContent[i] # None
                  THEN /\ st' = [st EXCEPT ![i] = "returned"]
                       /\ promiseAll' = PromiseAllResolve(promiseAll, i, currentContent[i][1])
                       /\ UNCHANGED firstFailure
                  ELSE /\ st' = [st EXCEPT ![i] = "thrown"]
                       /\ promiseAll' = PromiseAllReject(promiseAll, StageError("NO_CONTENT", i))
                       /\ firstFailure' = Record(firstFailure, StageError("NO_CONTENT", i))
       /\ UNCHANGED << mainVars, currentContent, researchCalls, toolFailures,
                    searchVars >>

\* the awaited Promise.all is fulfilled: Phase 4 starts, editorInChief.run is called
FanOutFulfilled(bodyOk, catchOk) ==
    LET contents == [i \in 1..Len(promiseAll.values) |-> promiseAll.values[i][1]]
    IN /\ pc = "fanout"
       /\ promiseAll.state = "fulfilled"
       /\ bodyOk => catchOk
       /\ sectionContents' = Some(contents)
       /\ IF ~bodyOk
          THEN /\ Catch(FsError, catchOk)
               /\ UNCHANGED << finalReviewInput, started, collector, callInput >>
          ELSE /\ pc' = "finalReview"
               /\ finalReviewInput' = Some(contents)
               /\ started' = Bump(started, "EDITOR_IN_CHIEF", 1)
               /\ collector' = [collector EXCEPT ![CollectorOf(0)] = <<>>]
               /\ callInput' = [callInput EXCEPT ![0] =
                                   Some([role |-> "EDITOR_IN_CHIEF", sections |-> contents])]
               /\ UNCHANGED << raised, firstFailure >>
       /\ UNCHANGED << articleOutline, contentStrategy, st, iterations, isApproved,
                       currentContent, currentFeedback, promiseAll, verdicts,
                       finalReview, finalMarkdown, result, usages, completed, incurred,
                       researchCalls, toolFailures,
                    searchVars >>

\* the awaited Promise.all is rejected: the catch block runs
FanOutRejected(catchOk) ==
    /\ pc = "fanout"
    /\ promiseAll.state = "rejected"
    /\ Catch(promiseAll.reason[1], catchOk)
    /\ UNCHANGED << articleOutline, contentStrategy, instVars, sectionContents,
                    finalReviewInput, finalReview, finalMarkdown, result, usages,
                    collector, started, completed, incurred, researchCalls, toolFailures,
                    searchVars >>

\* editorInChief.run returns: the review is written out, the usage recorded,
\* the document rendered and written out, the costs computed and written out,
\* and the document returned; failAt = 1, 2, 3 says which of the writes throws
FinalReviewReturn(review, failAt, catchOk) ==
    LET ledger == IF failAt = 1 THEN usages
                  ELSE Push(usages, "EDITOR_IN_CHIEF",
                            UsageRecord("EDITOR_IN_CHIEF", collector[CollectorOf(0)]))
        markdown == applyEditsAndGenerateMarkdown(review.finalArticleTitle,
                                                  sectionContents[1],
                                                  review.proposedEdits,
                                                  review.globalFeedback)
    IN /\ pc = "finalReview"
       /\ failAt = 0 => catchOk
       /\ finalReview' = Some(review)
       /\ completed' = Bump(completed, "EDITOR_IN_CHIEF", 1)
       /\ incurred' = incurred (+) SetToBag({StageUsage("EDITOR_IN_CHIEF")})
       /\ usages' = ledger
       /\ finalMarkdown' = IF failAt = 1 THEN None ELSE Some(markdown)
       /\ IF failAt # 0
          THEN /\ Catch(FsError, catchOk)
               /\ UNCHANGED result
          ELSE /\ pc' = "returned"
               /\ result' = Some([finalMarkdown |-> markdown])
               /\ UNCHANGED << raised, firstFailure >>
       /\ UNCHANGED << articleOutline, contentStrategy, instVars, sectionContents,
                       finalReviewInput, collector, started, researchCalls, toolFailures,
                    searchVars >>

\* editorInChief.run fails
FinalReviewFail(catchOk) ==
    /\ pc = "finalReview"
    /\ Catch(StageError("EDITOR_IN_CHIEF", 0), catchOk)
    /\ UNCHANGED << articleOutline, contentStrategy, instVars, sectionContents,
                    finalReviewInput, finalReview, finalMarkdown, result, usages,
                    collector, started, completed, incurred, researchCalls, toolFailures,
                    searchVars >>

Next ==
    \/ Start
    \/ \E w \in Callers : Research(w)
    \/ \E w \in Callers, tool \in Tools : ToolFail(w, tool)
    \/ \E outline \in Outlines, bodyOk \in BOOLEAN, catchOk \in BOOLEAN :
          OutlineReturn(outline, bodyOk, catchOk)
    \/ \E catchOk \in BOOLEAN : OutlineFail(catchOk)
    \/ \E bodyOk \in BOOLEAN, catchOk \in BOOLEAN : StrategyReturn(bodyOk, catchOk)
    \/ \E catchOk \in BOOLEAN : StrategyFail(catchOk)
    \/ \E i \in Sections, body \in DraftBodies, response \in WriterResponses :
          WriterReturn(i, body, response)
    \/ \E i \in Sections : WriterFail(i)
    \/ \E i \in Sections, approved \in BOOLEAN : EditorReturn(i, approved)
    \/ \E i \in Sections : EditorFail(i)
    \/ \E bodyOk \in BOOLEAN, catchOk \in BOOLEAN : FanOutFulfilled(bodyOk, catchOk)
    \/ \E catchOk \in BOOLEAN : FanOutRejected(catchOk)
    \/ \E review \in FinalReviews, failAt \in 0..3, catchOk \in BOOLEAN :
          FinalReviewReturn(review, failAt, catchOk)
    \/ \E catchOk \in BOOLEAN : FinalReviewFail(catchOk)

Spec == Init /\ [][Next]_vars

\* the outlines of the runs whose termination is checked
LiveOutlines == { outline \in Outlines : Len(outline) <= MaxLiveSections }

LiveNext ==
    \/ Start
    \/ \E w \in Callers : Research(w)
    \/ \E w \in Callers, tool \in Tools : ToolFail(w, tool)
    \/ \E outline \in LiveOutlines, bodyOk \in BOOLEAN, catchOk \in BOOLEAN :
          OutlineReturn(outline, bodyOk, catchOk)
    \/ \E catchOk \in BOOLEAN : OutlineFail(catchOk)
    \/ \E bodyOk \in BOOLEAN, catchOk \in BOOLEAN : StrategyReturn(bodyOk, catchOk)
    \/ \E catchOk \in BOOLEAN : StrategyFail(catchOk)
    \/ \E i \in Sections, body \in DraftBodies, response \in WriterResponses :
          WriterReturn(i, body, response)
    \/ \E i \in Sections : WriterFail(i)
    \/ \E i \in Sections, approved \in BOOLEAN : EditorReturn(i, approved)
    \/ \E i \in Sections : EditorFail(i)
    \/ \E bodyOk \in BOOLEAN, catchOk \in BOOLEAN : FanOutFulfilled(bodyOk, catchOk)
    \/ \E catchOk \in BOOLEAN : FanOutRejected(catchOk)
    \/ \E review \in FinalReviews, failAt \in 0..3, catchOk \in BOOLEAN :
          FinalReviewReturn(review, failAt, catchOk)
    \/ \E catchOk \in BOOLEAN : FinalReviewFail(catchOk)

\* every writer or editor call that is awaited eventually returns or fails
Fairness ==
    \A i \in Sections :
       /\ WF_vars((\E body \in DraftBodies, response \in WriterResponses :
                      WriterReturn(i, body, response)) \/ WriterFail(i))
       /\ WF_vars((\E approved \in BOOLEAN : EditorReturn(i, approved)) \/ EditorFail(i))

LiveSpec == Init /\ [][LiveNext]_vars /\ Fairness

\* ------------------------------------------------------------------------
\* The ledger under different append orders
\* ------------------------------------------------------------------------
\* the section instances push their WRITER and EDITOR records in the order
\* their calls return; SpecUsage starts from a ledger and reorders those two
\* lists one adjacent pair at a time
MaxRecords == 3

CompletionCounts == {1, 5}

SeqsUpTo(S, n) == UNION { [1..k -> S] : k \in 0..n }

TokenUsage(agent, caller, completionTokens) ==
    [promptTokens |-> 1, completionTokens |-> completionTokens,
     agent |-> agent, caller |-> caller]

\* records a stage call of the role may have pushed
WriterRecords ==
    { [agentUsage |-> au, researcherUsages |-> ru] :
        au \in {None} \cup { Some(TokenUsage("WRITER", "WRITER", c)) : c \in CompletionCounts },
        ru \in { <<>>, << TokenUsage("RESEARCHER", "WRITER", 5) >> } }

EditorRecords ==
    { [agentUsage |-> Some(TokenUsage("EDITOR", "EDITOR", c)), researcherUsages |-> <<>>] :
        c \in CompletionCounts }

Ledgers ==
    { [role \in AgentRole |->
          CASE role = "WRITER" -> w
            [] role = "EDITOR" -> e
            [] role = "CONTENT_STRATEGIST" -> IF others THEN <<UsageRecord(role, <<>>)>> ELSE <<>>
            [] OTHER -> IF others THEN <<UsageRecord(role, <<>>)>> ELSE <<>>] :
        w \in SeqsUpTo(WriterRecords, MaxRecords),
        e \in SeqsUpTo(EditorRecords, MaxRecords - 1),
        others \in BOOLEAN }

\* every variable of writeArticle other than pc and the ledger, before the run
Idle ==
    /\ articleOutline = <<>>
    /\ contentStrategy = <<>>
    /\ st = [i \in Sections |-> "idle"]
    /\ iterations = [i \in Sections |-> 0]
    /\ isApproved = [i \in Sections |-> FALSE]
    /\ currentContent = [i \in Sections |-> None]
    /\ currentFeedback = [i \in Sections |-> None]
    /\ callInput = [w \in Callers |-> None]
    /\ promiseAll = [state |-> "none", values |-> <<>>, order |-> <<>>, remaining |-> 0,
                     reason |-> None]
    /\ finalReviewInput = None
    /\ result = None
    /\ raised = None
    /\ collector = [w \in Callers |-> <<>>]
    /\ started = [role \in AgentRole |-> 0]
    /\ completed = [role \in AgentRole |-> 0]
    /\ firstFailure = None
    /\ verdicts = [i \in Sections |-> <<>>]
    /\ incurred = EmptyBag
    /\ researchCalls = 0
    /\ toolFailures = 0
    /\ SearchIdle

UsageInit ==
    /\ pc = "usage"
    /\ usages \in Ledgers
    /\ sectionContents = None
    /\ finalReview = None
    /\ finalMarkdown = None
    /\ Idle

Swap(records, k) == [records EXCEPT ![k] = records[k + 1], ![k + 1] = records[k]]

\* two pushes of the same role happen in the other order
Reorder(role, k) ==
    /\ pc = "usage"
    /\ k < Len(usages[role])
    /\ usages' = [usages EXCEPT ![role] = Swap(@, k)]
    /\ UNCHANGED << pc, articleOutline, contentStrategy, instVars, sectionContents,
                    finalReviewInput, finalReview, finalMarkdown, result, raised,
                    collector, started, completed, firstFailure, incurred, researchCalls, toolFailures,
                    searchVars >>

UsageNext ==
    \/ \E k \in 1..MaxRecords : Reorder("WRITER", k)
    \/ \E k \in 1..MaxRecords : Reorder("EDITOR", k)

SpecUsage == UsageInit /\ [][UsageNext]_vars

\* ------------------------------------------------------------------------
\* applyEditsAndGenerateMarkdown on arbitrary sections and edits
\* ------------------------------------------------------------------------
MaxLen == 2
MaxEdits == 2
MaxEditSections == 2

Chars == {"a", "b"}

Bodies == SeqsUpTo(Chars, MaxLen) \ { <<>> }

OriginalTexts == [1..1 -> Chars]

NewTexts == { <<>>, <<"b">>, <<"$", "&">>, <<"$", "$">> }

\* the first section is headed A, the others A or B
EditSections ==
    { [i \in 1..n |-> [heading |-> h[i], content |-> b[i], references |-> <<>>]] :
        n \in 1..MaxEditSections,
        h \in { g \in [1..MaxEditSections -> {Headings[1], Headings[2]}] : g[1] = Headings[1] },
        b \in [1..MaxEditSections -> Bodies] }

ProposedEdits ==
    { [sectionHeading |-> h, originalText |-> o, newText |-> t, priority |-> "HIGH"] :
        h \in {Headings[1], Headings[2]}, o \in OriginalTexts, t \in NewTexts }

EditsInit ==
    /\ pc = "edit"
    /\ usages = [role \in AgentRole |-> <<>>]
    /\ sectionContents \in { Some(sections) : sections \in EditSections }
    /\ finalReview \in { Some([finalArticleTitle |-> <<"T">>, globalFeedback |-> <<>>,
                               proposedEdits |-> edits]) :
                           edits \in SeqsUpTo(ProposedEdits, MaxEdits) }
    /\ finalMarkdown = None
    /\ Idle

ApplyEdits ==
    /\ pc = "edit"
    /\ pc' = "edited"
    /\ finalMarkdown' = Some(applyEditsAndGenerateMarkdown(finalReview[1].finalArticleTitle,
                                                           sectionContents[1],
                                                           finalReview[1].proposedEdits,
                                                           finalReview[1].globalFeedback))
    /\ UNCHANGED << articleOutline, contentStrategy, instVars, sectionContents,
                    finalReviewInput, finalReview, result, raised, usages, collector,
                    started, completed, firstFailure, incurred, researchCalls, toolFailures,
                    searchVars >>

EditsNext == ApplyEdits

SpecEdits == EditsInit /\ [][EditsNext]_vars

\* ------------------------------------------------------------------------
\* webSearch called for arbitrary queries and params, calls overlapping
\* ------------------------------------------------------------------------
SearchInit ==
    /\ pc = "search"
    /\ usages = [role \in AgentRole |-> <<>>]
    /\ sectionContents = None
    /\ finalReview = None
    /\ finalMarkdown = None
    /\ Idle

\* webSearch is called and runs up to its await: a cached response is
\* returned at once, otherwise the provider is called
BeginSearch(s, query, params) ==
    LET cacheKey == generateCacheKey(query, params)
    IN /\ pc = "search"
       /\ searchCalls[s].pc = "idle"
       /\ \A t \in 1..(s - 1) : searchCalls[t].pc # "idle"
       /\ searchCalls' = [searchCalls EXCEPT ![s] =
             IF Has(searchCache, cacheKey)
             THEN [pc |-> "done", cacheKey |-> Some(cacheKey), called |-> FALSE,
                   out |-> Some(searchCache[cacheKey])]
             ELSE [pc |-> "provider", cacheKey |-> Some(cacheKey), called |-> TRUE,
                   out |-> None]]
       /\ UNCHANGED << runVars, searchCache, succeeded >>

\* the provider's response arrives: it is stored and returned
ProviderReturn(s, response) ==
    /\ searchCalls[s].pc = "provider"
    /\ searchCache' = Set(searchCache, searchCalls[s].cacheKey[1], response)
    /\ searchCalls' = [searchCalls EXCEPT ![s].pc = "done", ![s].out = Some(response)]
    /\ succeeded' = succeeded \cup {searchCalls[s].cacheKey[1]}
    /\ UNCHANGED runVars

\* the provider call fails: the catch block returns the failure message
ProviderFail(s) ==
    /\ searchCalls[s].pc = "provider"
    /\ searchCalls' = [searchCalls EXCEPT ![s].pc = "done", ![s].out = Some(FailureMessage)]
    /\ UNCHANGED << runVars, searchCache, succeeded >>

SearchNext ==
    \/ \E s \in SearchSlots, query \in Queries, params \in SearchParams :
          BeginSearch(s, query, params)
    \/ \E s \in SearchSlots, response \in Responses : ProviderReturn(s, response)
    \/ \E s \in SearchSlots : ProviderFail(s)

SpecSearch == SearchInit /\ [][SearchNext]_vars

\* ------------------------------------------------------------------------
\* Properties
\* ------------------------------------------------------------------------
NumSections == Len(articleOutline)

Last(s) == s[Len(s)]

\* the revision state machine's terminal states, read off the reviews received
Approved(i) == st[i] = "returned" /\ verdicts[i] # <<>> /\ Last(verdicts[i])

Exhausted(i) ==
    /\ st[i] = "returned"
    /\ Len(verdicts[i]) = MAX_ITERATIONS
    /\ \A k \in 1..Len(verdicts[i]) : ~verdicts[i][k]

InFlight(i) == st[i] \in {"writer", "editor"}

Terminal(i) == st[i] \in {"returned", "thrown"}

\* C1: when the fan-out completes, Final Review is handed exactly one
\* SectionContent per SectionPlan (N of them for an outline of N sections),
\* each returned by an instance that ended Approved or Exhausted
C1_FanOutYieldsTerminalContents ==
    /\ sectionContents # None =>
          /\ Len(sectionContents[1]) = NumSections
          /\ Len(contentStrategy) = NumSections
          /\ \A i \in 1..NumSections :
                /\ \E j \in 1..NumSections : sectionContents[1][j].id.section = i
                /\ sectionContents[1][i] = currentContent[sectionContents[1][i].id.section][1]
                /\ Approved(i) \/ Exhausted(i)
    /\ finalReviewInput # None => finalReviewInput = sectionContents

C1_Witness ==
    /\ pc = "finalReview"
    /\ NumSections = 2
    /\ \E i, j \in 1..NumSections : Approved(i) /\ Len(verdicts[i]) = 2 /\ Exhausted(j)

\* C2: the revision loop makes at most MAX_ITERATIONS round-trips, the
\* iteration counter goes up by exactly one with each draft call started and
\* never exceeds MAX_ITERATIONS, and every instance reaches a terminal state
C2_CounterBounded ==
    \A i \in Sections :
       /\ iterations[i] <= MAX_ITERATIONS
       /\ Len(verdicts[i]) <= MAX_ITERATIONS
       /\ Len(verdicts[i]) <= iterations[i]
       /\ InFlight(i) => iterations[i] = Len(verdicts[i]) + 1

C2_CounterStep ==
    \A i \in Sections :
       IF st'[i] = "writer" /\ st[i] # "writer"
       THEN iterations'[i] = iterations[i] + 1
       ELSE iterations'[i] = iterations[i]

C2_RevisionLoopBoundedAndTerminates ==
    /\ []C2_CounterBounded
    /\ [][C2_CounterStep]_vars
    /\ \A i \in Sections : InFlight(i) ~> Terminal(i)

C2_Witness ==
    \E i \in Sections : Exhausted(i) /\ iterations[i] = MAX_ITERATIONS

\* C3: whatever the completion order of the instances, the i-th content handed
\* to Final Review and to the renderer is the one returned by the instance
\* spawned for the i-th plan, which is the plan of the i-th outline section
C3_OutputInPlanOrder ==
    /\ sectionContents # None =>
          \A i \in 1..Len(sectionContents[1]) :
             /\ sectionContents[1][i].id.section = i
             /\ sectionContents[1][i] = currentContent[i][1]
             /\ contentStrategy[i].section = i
             /\ contentStrategy[i].heading = articleOutline[i].heading
    /\ finalReviewInput # None => finalReviewInput = sectionContents

C3_Witness ==
    /\ finalReviewInput # None
    /\ finalMarkdown # None
    /\ promiseAll.order = <<2, 1>>

\* C4: writeArticle returns a document only when the outline, every strategy
\* step, every section instance, the final review and the render completed;
\* once any call has failed it returns nothing and raises
C4_ReturnsOnlyCompleteDocument ==
    /\ pc = "returned" <=> result # None
    /\ result # None =>
          /\ firstFailure = None
          /\ raised = None
          /\ completed["OUTLINER"] = 1
          /\ completed["CONTENT_STRATEGIST"] = NumSections
          /\ \A i \in 1..NumSections : Approved(i) \/ Exhausted(i)
          /\ completed["EDITOR_IN_CHIEF"] = 1
          /\ finalMarkdown = Some(result[1].finalMarkdown)
    /\ firstFailure # None =>
          /\ result = None
          /\ pc = "thrown" \/ (pc = "fanout" /\ promiseAll.state = "rejected")
    /\ pc = "thrown" <=> raised # None

C4_Witness ==
    /\ pc = "thrown"
    /\ firstFailure = Some(StageError("EDITOR", 2))
    /\ st[1] = "returned"
    /\ result = None

\* C5: the phases start in the order Outline, Strategy, Draft/Review, Final
\* Review, Render: a call of a phase starts only after every call of the
\* phases before it has returned
C5_PhasesInOrder ==
    /\ started["CONTENT_STRATEGIST"] > 0 => completed["OUTLINER"] = 1
    /\ started["WRITER"] + started["EDITOR"] > 0 =>
          /\ completed["OUTLINER"] = 1
          /\ completed["CONTENT_STRATEGIST"] = NumSections
          /\ started["CONTENT_STRATEGIST"] = NumSections
    /\ started["EDITOR_IN_CHIEF"] > 0 =>
          /\ completed["OUTLINER"] = 1
          /\ completed["CONTENT_STRATEGIST"] = NumSections
          /\ \A i \in 1..NumSections : st[i] = "returned"
          /\ started["WRITER"] = completed["WRITER"]
          /\ started["EDITOR"] = completed["EDITOR"]
    /\ finalMarkdown # None => completed["EDITOR_IN_CHIEF"] = 1
    /\ \A role \in AgentRole : completed[role] <= started[role]

C5_Witness ==
    /\ pc = "returned"
    /\ NumSections = 2
    /\ started["WRITER"] > 2

\* phase of the stage call whose failure was the first of the run (0: none)
FailedPhase ==
    IF firstFailure = None THEN 0
    ELSE CASE firstFailure[1].role = "OUTLINER" -> 1
           [] firstFailure[1].role = "CONTENT_STRATEGIST" -> 2
           [] firstFailure[1].role \in {"WRITER", "EDITOR", "NO_CONTENT"} -> 3
           [] firstFailure[1].role = "EDITOR_IN_CHIEF" -> 4
           [] OTHER -> 0

C7_TotalsIndependentOfAppendOrder ==
    [][calculateUsage(usages').total = calculateUsage(usages).total]_vars

RECURSIVE AllCharges(_, _)
AllCharges(ledger, k) ==
    IF k > Len(RoleOrder) THEN <<>>
    ELSE SelfCharges(ledger[RoleOrder[k]]) \o ResearchCharges(ledger[RoleOrder[k]])
         \o AllCharges(ledger, k + 1)

BagOf(s) == [x \in {s[k] : k \in DOMAIN s} |-> Cardinality({k \in DOMAIN s : s[k] = x})]

\* C8: the usages calculateUsage charges are never more than the usages the
\* calls of the run reported, and in a run that returns they are exactly
\* those, each one once; every top-level usage was spent by the agent of the
\* list it is in, and a research sub-call's usage appears only nested, in the
\* record of the stage call that triggered it
C8_UsageCountedExactlyOnce ==
    /\ BagOf(AllCharges(usages, 1)) \sqsubseteq incurred
    /\ pc = "returned" => BagOf(AllCharges(usages, 1)) = incurred
    /\ \A role \in AgentRole : \A k \in DOMAIN usages[role] :
          LET record == usages[role][k]
          IN /\ \A j \in DOMAIN record.agentUsage :
                   record.agentUsage[j].agent = role
             /\ \A j \in DOMAIN record.researcherUsages :
                   /\ record.researcherUsages[j].agent = "RESEARCHER"
                   /\ record.researcherUsages[j].caller = role

C8_Witness ==
    /\ pc = "returned"
    /\ NumSections = 2
    /\ ResearchCharges(usages["EDITOR"]) # <<>>
    /\ BagOf(AllCharges(usages, 1)) = incurred

RECURSIVE RoundTrips(_)
RoundTrips(n) == IF n = 0 THEN 0 ELSE iterations[n] + RoundTrips(n - 1)

BodyAfter(section, proposedEdits, k) ==
    EditedBody(section, section.content, SubSeq(proposedEdits, 1, k))

Misses(section, edit, body) ==
    /\ edit.sectionHeading = section.heading
    /\ ~Includes(body, edit.originalText)

\* C10: an edit whose sectionHeading is a section's heading but whose
\* originalText does not occur in the section's body leaves that body as it
\* was before the edit; the document is rendered all the same, and if every
\* edit is of that kind or names no section it is the document without edits
C10_MissedEditLeavesBodyUnchanged ==
    pc = "edited" =>
       LET sections == sectionContents[1]
           edits == finalReview[1].proposedEdits
       IN /\ finalMarkdown # None
          /\ \A s \in DOMAIN sections : \A k \in DOMAIN edits :
                Misses(sections[s], edits[k], BodyAfter(sections[s], edits, k - 1))
                   => BodyAfter(sections[s], edits, k) = BodyAfter(sections[s], edits, k - 1)
          /\ (\A s \in DOMAIN sections : \A k \in DOMAIN edits :
                 edits[k].sectionHeading = sections[s].heading
                    => Misses(sections[s], edits[k], sections[s].content))
             => finalMarkdown[1] =
                   applyEditsAndGenerateMarkdown(finalReview[1].finalArticleTitle,
                                                 sections, <<>>,
                                                 finalReview[1].globalFeedback)

C10_Witness ==
    /\ pc = "edited"
    /\ Len(sectionContents[1]) = 1
    /\ Len(finalReview[1].proposedEdits) = 1
    /\ Misses(sectionContents[1][1], finalReview[1].proposedEdits[1],
              sectionContents[1][1].content)
    /\ finalReview[1].proposedEdits[1].newText = <<"b">>
    /\ finalMarkdown = Some(<<"#", " ", "T", "\n", "\n", "#", "#", " ", "A", "\n", "\n",
                              "a", "a", "\n", "\n">>)

\* iteration of the first approving review in a list of verdicts (0: none)
FirstApproval(v) ==
    IF \E k \in DOMAIN v : v[k]
    THEN CHOOSE k \in DOMAIN v : v[k] /\ \A j \in 1..(k - 1) : ~v[j]
    ELSE 0

\* number of round-trips of an instance that received the verdicts v and returned
RoundTripsFor(v) == IF FirstApproval(v) > 0 THEN FirstApproval(v) ELSE MAX_ITERATIONS

RECURSIVE SumRoundTripsFor(_)
SumRoundTripsFor(n) ==
    IF n = 0 THEN 0 ELSE RoundTripsFor(verdicts[n]) + SumRoundTripsFor(n - 1)

C11_CallCounts ==
    /\ \A i \in 1..Len(contentStrategy) :
          /\ \A k \in 1..(Len(verdicts[i]) - 1) : ~verdicts[i][k]
          /\ Len(verdicts[i]) <= MAX_ITERATIONS
          /\ st[i] \in {"writer", "editor"} => iterations[i] = Len(verdicts[i]) + 1
          /\ st[i] = "returned" =>
                /\ iterations[i] = RoundTripsFor(verdicts[i])
                /\ Len(verdicts[i]) = RoundTripsFor(verdicts[i])
                /\ currentContent[i][1].id.draft = RoundTripsFor(verdicts[i])
    /\ promiseAll.state = "fulfilled" =>
          /\ started["WRITER"] = SumRoundTripsFor(Len(contentStrategy))
          /\ started["EDITOR"] = SumRoundTripsFor(Len(contentStrategy))
          /\ completed["WRITER"] = started["WRITER"]
          /\ completed["EDITOR"] = started["EDITOR"]

\* a draft call is followed by a review call of the same instance, a review
\* call by a draft call only after a rejection, and a finished instance calls
\* nothing; every call counted is one of these
C11_Alternation ==
    /\ started'["WRITER"] = started["WRITER"]
          + Cardinality({i \in Sections : st'[i] = "writer" /\ st[i] # "writer"})
    /\ started'["EDITOR"] = started["EDITOR"]
          + Cardinality({i \in Sections : st'[i] = "editor" /\ st[i] # "editor"})
    /\ \A i \in Sections :
          /\ st[i] = "writer" /\ st'[i] # "writer" => st'[i] \in {"editor", "thrown"}
          /\ st[i] = "editor" /\ st'[i] # "editor" =>
                /\ st'[i] \in {"writer", "returned", "thrown"}
                /\ st'[i] = "writer" => ~Last(verdicts'[i])
                /\ st'[i] = "returned" =>
                      Last(verdicts'[i]) \/ Len(verdicts'[i]) = MAX_ITERATIONS
          /\ st[i] \in {"returned", "thrown"} => st'[i] = st[i]

\* C11: an instance first approved at iteration k makes exactly k draft and k
\* review calls, draft and review alternating and none after the approval; an
\* instance never approved makes 3 of each; the calls of a run are the sum
\* over its sections
C11_CallsPerSection == []C11_CallCounts /\ [][C11_Alternation]_vars

C11_Witness ==
    /\ pc = "returned"
    /\ verdicts[1] = <<TRUE>>
    /\ verdicts[2] = <<FALSE, FALSE, TRUE>>
    /\ started["WRITER"] = 4
    /\ started["EDITOR"] = 4
    /\ Len(sectionContents[1]) = 2
    /\ sectionContents[1][1].heading = HeadingOf(1)
    /\ sectionContents[1][2].heading = HeadingOf(2)

\* C12: a snapshot write that fails never stops the pipeline: no run is
\* aborted whose first failure is the failure of a write in the try block
C12_SnapshotNeverGates == ~(pc = "thrown" /\ firstFailure = Some(FsError))

\* C13: once a generative call, a web search or a URL fetch of the run has
\* failed, the run does not return and no document is produced
C13_ExternalFailureAbortsRun ==
    (FailedPhase > 0 \/ toolFailures > 0) =>
       /\ pc # "returned"
       /\ finalMarkdown = None
       /\ result = None

\* C14: an outline, strategy or final-review call is started only while no
\* call of the run has failed, the strategy call for a section only once the
\* calls for the sections before it have returned; a review call is started
\* only for a draft just returned, and a draft call only when the instances
\* are spawned or after a review that returned approved = false; an instance
\* that threw and a run that threw call nothing more
C14_NoRetryStep ==
    /\ \A role \in {"OUTLINER", "CONTENT_STRATEGIST", "EDITOR_IN_CHIEF"} :
          started'[role] # started[role] =>
             /\ firstFailure = None
             /\ started'[role] = started[role] + 1
             /\ started[role] = completed'[role]
             /\ role # "CONTENT_STRATEGIST" => started[role] = 0
    /\ started'["WRITER"] # started["WRITER"] =>
          \/ pc # "fanout" /\ pc' = "fanout" /\ started["WRITER"] = 0
                /\ started'["WRITER"] = Len(contentStrategy')
          \/ /\ started'["WRITER"] = started["WRITER"] + 1
             /\ \E i \in Sections :
                   /\ st[i] = "editor" /\ st'[i] = "writer"
                   /\ verdicts'[i] = Append(verdicts[i], FALSE)
                   /\ completed'["EDITOR"] = completed["EDITOR"] + 1
    /\ started'["EDITOR"] # started["EDITOR"] =>
          /\ started'["EDITOR"] = started["EDITOR"] + 1
          /\ completed'["WRITER"] = completed["WRITER"] + 1
          /\ \E i \in Sections : st[i] = "writer" /\ st'[i] = "editor"
    /\ \A i \in Sections : st[i] = "thrown" => st'[i] = "thrown"
    /\ pc = "thrown" =>
          /\ pc' = "thrown"
          /\ \A role \in {"OUTLINER", "CONTENT_STRATEGIST", "EDITOR_IN_CHIEF"} :
                started'[role] = started[role]

C14_FailedCallNeverRetried == [][C14_NoRetryStep]_vars

C14_Witness ==
    /\ pc = "thrown"
    /\ firstFailure = Some(StageError("WRITER", 1))
    /\ st[1] = "thrown"
    /\ verdicts[1] = <<FALSE>>
    /\ iterations[1] = 2
    /\ started["WRITER"] = 3
    /\ completed["WRITER"] = 2
    /\ st[2] = "returned"

\* C15: the strategy calls are made one at a time in outline order; the call
\* for the i-th section is given the plans returned for sections 1..i-1, in
\* that order, and no other; when the fold is over there is one plan per
\* outline section, in outline order
C15_StrategyFoldSequential ==
    /\ started["CONTENT_STRATEGIST"] - completed["CONTENT_STRATEGIST"] \in {0, 1}
    /\ Len(contentStrategy) = completed["CONTENT_STRATEGIST"]
    /\ \A j \in DOMAIN contentStrategy :
          /\ contentStrategy[j].section = j
          /\ contentStrategy[j].heading = articleOutline[j].heading
    /\ pc = "strategy" =>
          LET i == started["CONTENT_STRATEGIST"]
              input == callInput[0][1]
          IN /\ input.role = "CONTENT_STRATEGIST"
             /\ input.section = articleOutline[i]
             /\ Len(input.previousStrategies) = i - 1
             /\ \A j \in 1..(i - 1) :
                   /\ input.previousStrategies[j] = contentStrategy[j]
                   /\ input.previousStrategies[j].section = j
    /\ promiseAll.state # "none" => Len(contentStrategy) = NumSections

C15_Witness ==
    /\ pc = "strategy"
    /\ NumSections = 2
    /\ started["CONTENT_STRATEGIST"] = 2
    /\ callInput[0][1].section = articleOutline[2]
    /\ Len(callInput[0][1].previousStrategies) = 1
    /\ callInput[0][1].previousStrategies[1].section = 1

\* draft k of section i and review k of section i, as the calls tagged them
IsDraft(content, i, k) == content.id = [section |-> i, draft |-> k]

IsReview(feedback, i, k) == feedback.id = [section |-> i, review |-> k] /\ ~feedback.approved

\* C16: the first draft call of a section is given no revision context; draft
\* call k+1 is given the content of draft k and the feedback of the rejecting
\* review k, and review k+1, which judges draft k+1, is given that same
\* previous content and previous feedback
C16_RevisionContextThreading ==
    \A i \in 1..Len(contentStrategy) :
       LET k == iterations[i] - 1
           input == callInput[i][1]
       IN /\ st[i] = "writer" =>
                /\ input.role = "WRITER"
                /\ input.plan = contentStrategy[i]
                /\ k = 0 => input.feedback = None
                /\ k > 0 =>
                      /\ input.feedback # None
                      /\ IsDraft(input.feedback[1].previousContent, i, k)
                      /\ IsReview(input.feedback[1].editorFeedback, i, k)
          /\ st[i] = "editor" =>
                /\ input.role = "EDITOR"
                /\ IsDraft(input.content, i, k + 1)
                /\ k = 0 => input.feedback = None
                /\ k > 0 =>
                      /\ input.feedback # None
                      /\ IsDraft(input.feedback[1].previousContent, i, k)
                      /\ IsReview(input.feedback[1].previousFeedback, i, k)

C16_Witness ==
    /\ st[1] = "editor"
    /\ iterations[1] = 3
    /\ IsDraft(callInput[1][1].content, 1, 3)
    /\ IsDraft(callInput[1][1].feedback[1].previousContent, 1, 2)
    /\ IsReview(callInput[1][1].feedback[1].previousFeedback, 1, 2)

C17_Returned ==
    \A i \in 1..Len(contentStrategy) :
       st[i] = "returned" =>
          /\ promiseAll.values[i] = currentContent[i]
          /\ IsDraft(currentContent[i][1], i, iterations[i])
          /\ iterations[i] = Len(verdicts[i])
          /\ currentContent[i][1] \in
                { [heading |-> contentStrategy[i].heading, content |-> body,
                   references |-> <<>>, id |-> [section |-> i, draft |-> iterations[i]]] :
                     body \in DraftBodies }

\* the review that ends an instance judged the content the instance returns
C17_TerminatingReview ==
    \A i \in 1..Len(contentStrategy) :
       st[i] = "editor" /\ st'[i] = "returned" =>
          /\ callInput[i][1].content = promiseAll'.values[i][1]
          /\ currentContent'[i] = currentContent[i]

\* C17: the content an instance returns is the output of its most recent
\* draft call, whole and as the writer returned it, and is the content its
\* terminating review judged; no earlier draft is returned
C17_ReturnsLatestDraft == []C17_Returned /\ [][C17_TerminatingReview]_vars

C17_Witness ==
    /\ st[1] = "returned"
    /\ verdicts[1] = <<FALSE, TRUE>>
    /\ IsDraft(promiseAll.values[1][1], 1, 2)
    /\ st[2] = "returned"
    /\ verdicts[2] = <<FALSE, FALSE, FALSE>>
    /\ IsDraft(promiseAll.values[2][1], 2, 3)

\* C18: an instance whose three reviews all rejected has returned its third
\* draft and has not thrown; that draft is among the sections handed to
\* Final Review and rendered, and a run whose instances all returned is
\* aborted only by a failure that comes after the fan-out
C18_ExhaustedDoesNotFail ==
    /\ \A i \in 1..Len(contentStrategy) :
          Len(verdicts[i]) = MAX_ITERATIONS /\ (\A k \in DOMAIN verdicts[i] : ~verdicts[i][k]) =>
             /\ st[i] = "returned"
             /\ Exhausted(i)
             /\ IsDraft(promiseAll.values[i][1], i, MAX_ITERATIONS)
             /\ firstFailure # Some(StageError("NO_CONTENT", i))
             /\ finalReviewInput # None =>
                   finalReviewInput[1][i] = promiseAll.values[i][1]
             /\ finalMarkdown # None =>
                   Includes(finalMarkdown[1],
                            <<"#", "#", " ">> \o promiseAll.values[i][1].heading)
    /\ promiseAll.state = "fulfilled" /\ pc = "thrown" =>
          firstFailure[1].role \in {"FS", "EDITOR_IN_CHIEF"}

C18_Witness ==
    /\ pc = "returned"
    /\ result # None
    /\ verdicts[1] = <<TRUE>>
    /\ verdicts[2] = <<FALSE, FALSE, FALSE>>
    /\ IsDraft(finalReviewInput[1][2], 2, 3)
    /\ Includes(result[1].finalMarkdown, <<"#", "#", " ">> \o HeadingOf(2))

\* the loop state of a live instance, read off the verdicts it received
C19_ControlFromVerdicts ==
    \A i \in 1..Len(contentStrategy) :
       LET v == verdicts[i]
           over == v # <<>> /\ (Last(v) \/ Len(v) = MAX_ITERATIONS)
       IN /\ st[i] \in {"writer", "editor", "returned"} =>
                /\ st[i] = "returned" <=> over
                /\ iterations[i] = IF over THEN Len(v) ELSE Len(v) + 1
                /\ isApproved[i] = (v # <<>> /\ Last(v))
          /\ currentFeedback[i] # None =>
                DOMAIN currentFeedback[i][1] = {"previousContent", "editorFeedback"}
          /\ st[i] = "writer" /\ callInput[i][1].feedback # None =>
                callInput[i][1].feedback = currentFeedback[i]

\* the rebuttal returned with draft k goes into the input of review k, if
\* k >= 2, and nowhere else
C19_RebuttalStep ==
    \A i \in Sections :
       st[i] = "writer" /\ st'[i] = "editor" =>
          /\ iterations[i] = 1 => callInput'[i][1].feedback = None
          /\ iterations[i] >= 2 =>
                callInput'[i][1].feedback[1].writerResponse \in WriterResponses
          /\ currentFeedback'[i] = currentFeedback[i]
          /\ iterations'[i] = iterations[i]
          /\ isApproved'[i] = isApproved[i]
          /\ verdicts'[i] = verdicts[i]

\* C19: the state of an instance's revision loop, its iteration count and its
\* calls follow from the approved flags it received, whatever rebuttals the
\* writer returned; a rebuttal is only passed on to the review of its draft
C19_RebuttalIsAdvisory == []C19_ControlFromVerdicts /\ [][C19_RebuttalStep]_vars

C19_Witness ==
    /\ st[1] = "editor" /\ st[2] = "editor"
    /\ verdicts[1] = <<FALSE>> /\ verdicts[2] = <<FALSE>>
    /\ iterations[1] = 2 /\ iterations[2] = 2
    /\ callInput[1][1].feedback[1].writerResponse = Some(<<"r">>)
    /\ callInput[2][1].feedback[1].writerResponse = None

\* the variables of section instance i: the locals of its closure and the
\* input of the call it awaits
Local(i) ==
    [st |-> st[i], iterations |-> iterations[i], isApproved |-> isApproved[i],
     currentContent |-> currentContent[i], currentFeedback |-> currentFeedback[i],
     verdicts |-> verdicts[i]]

\* what the locals l of instance i become when its draft call returns body,
\* when its review call returns approved, and when its call fails
AfterDraft(l, i, plan, body) ==
    [l EXCEPT !.st = "editor",
              !.currentContent = Some([heading |-> plan.heading, content |-> body,
                                       references |-> <<>>,
                                       id |-> [section |-> i, draft |-> l.iterations]])]

AfterReview(l, i, approved) ==
    LET again == ~approved /\ l.iterations < MAX_ITERATIONS
        editorResult == [approved |-> approved, feedback |-> <<>>,
                         id |-> [section |-> i, review |-> l.iterations]]
    IN [l EXCEPT !.st = IF again THEN "writer" ELSE "returned",
                 !.iterations = IF again THEN @ + 1 ELSE @,
                 !.isApproved = approved,
                 !.verdicts = Append(@, approved),
                 !.currentFeedback =
                     IF again THEN Some([previousContent |-> l.currentContent[1],
                                         editorFeedback |-> editorResult])
                     ELSE @]

AfterFailure(l) == [l EXCEPT !.st = "thrown"]

\* once the instances run, a step changes the variables of at most one of
\* them, and changes them to what its own plan, its own variables and the
\* response to its own call give
C20_IsolatedStep ==
    pc = "fanout" =>
       /\ Cardinality({i \in Sections : Local(i)' # Local(i)}) <= 1
       /\ \A i \in Sections :
             Local(i)' # Local(i) =>
                /\ st[i] \in {"writer", "editor"}
                /\ st[i] = "writer" =>
                      Local(i)' \in
                         { AfterDraft(Local(i), i, contentStrategy[i], body) :
                              body \in DraftBodies } \cup { AfterFailure(Local(i)) }
                /\ st[i] = "editor" =>
                      Local(i)' \in
                         { AfterReview(Local(i), i, approved) : approved \in BOOLEAN }
                         \cup { AfterFailure(Local(i)) }
                /\ st'[i] = "returned" =>
                      promiseAll'.values[i] = currentContent'[i]
                /\ \A j \in DOMAIN promiseAll.values :
                      j # i => promiseAll'.values[j] = promiseAll.values[j]

C21_NoCallAfterAbort ==
    [][pc = "thrown" => started' = started /\ usages' = usages]_vars

\* C22: the error writeArticle throws is the first failure of the run, never
\* a later one and never the error of a write of the catch block
C22_RaisesFirstFailure == pc = "thrown" => raised = firstFailure

\* body with its first occurrence of originalText replaced by newText, copied
\* character for character
LiteralReplace(body, originalText, newText) ==
    LET position == IndexOf(body, originalText)
    IN SubSeq(body, 1, position) \o newText
       \o SubSeq(body, position + Len(originalText) + 1, Len(body))

\* C23: an edit whose sectionHeading is a section's heading and whose
\* originalText occurs in the section's body turns the body into the text
\* before the first occurrence, then newText as it is, then the text after it
C23_FirstOccurrenceLiteral ==
    pc = "edited" =>
       LET sections == sectionContents[1]
           edits == finalReview[1].proposedEdits
       IN \A s \in DOMAIN sections : \A k \in DOMAIN edits :
             LET before == BodyAfter(sections[s], edits, k - 1)
             IN edits[k].sectionHeading = sections[s].heading
                   /\ Includes(before, edits[k].originalText)
                => BodyAfter(sections[s], edits, k)
                      = LiteralReplace(before, edits[k].originalText, edits[k].newText)

\* positions of the document at which a line starts with "## "
BlockStarts(markdown) ==
    { i \in 1..(Len(markdown) - 3) :
         /\ SubSeq(markdown, i, i + 2) = <<"#", "#", " ">>
         /\ i > 1 /\ markdown[i - 1] = "\n" }

\* the headings of the blocks of the document, from top to bottom
RECURSIVE BlockHeadings(_, _)
BlockHeadings(markdown, from) ==
    LET starts == { i \in BlockStarts(markdown) : i >= from }
    IN IF starts = {} THEN <<>>
       ELSE LET i == CHOOSE j \in starts : \A l \in starts : j <= l
            IN << <<markdown[i + 3]>> >> \o BlockHeadings(markdown, i + 1)

\* C24: the rendered document has one block per section of the list, in the
\* order of the list, whatever edits are proposed
C24_OneBlockPerSectionInOrder ==
    pc = "edited" =>
       LET sections == sectionContents[1]
       IN /\ Cardinality(BlockStarts(finalMarkdown[1])) = Len(sections)
          /\ BlockHeadings(finalMarkdown[1], 1)
                = [s \in 1..Len(sections) |-> sections[s].heading]

C24_Witness ==
    /\ pc = "edited"
    /\ Len(sectionContents[1]) = 2
    /\ sectionContents[1][1].heading = <<"A">>
    /\ sectionContents[1][2].heading = <<"B">>
    /\ Len(finalReview[1].proposedEdits) = 2
    /\ finalReview[1].proposedEdits[1].sectionHeading = <<"B">>
    /\ finalReview[1].proposedEdits[2].sectionHeading = <<"B">>
    /\ BlockHeadings(finalMarkdown[1], 1) = << <<"A">>, <<"B">> >>

\* the natural number nearest to x * 10^8, for a double 0 <= x < 1
InUnits(x) ==
    IF x.m = <<>> THEN <<>>
    ELSE LET n == MulSmall(MulSmall(MulSmall(MulSmall(x.m, 100), 100), 100), 100)
             doubled == ShiftRight(n, (0 - x.e) - 1).q
         IN DivSmall(AddN(doubled, <<1>>), 2).q

\* the price of one token in units of 10^-8 dollar
UnitRate(model) ==
    CASE model = "o1" -> [input |-> 1500, output |-> 6000]
      [] model = "gpt-4o" -> [input |-> 250, output |-> 1000]
      [] model = "gpt-4o-mini" -> [input |-> 15, output |-> 60]

RECURSIVE ExactSum(_, _)
ExactSum(tokenUsages, model) ==
    IF tokenUsages = <<>> THEN 0
    ELSE Head(tokenUsages).promptTokens * UnitRate(model).input
         + Head(tokenUsages).completionTokens * UnitRate(model).output
         + ExactSum(Tail(tokenUsages), model)

\* agentCosts + researchCosts of the ledger as exact sums, in units of 10^-8 dollar
ExactCost(ledger) ==
    ExactSum(SelfCharges(ledger["OUTLINER"]), "o1")
    + ExactSum(SelfCharges(ledger["EDITOR_IN_CHIEF"]), "o1")
    + ExactSum(SelfCharges(ledger["CONTENT_STRATEGIST"]), "gpt-4o")
    + ExactSum(SelfCharges(ledger["WRITER"]), "gpt-4o")
    + ExactSum(SelfCharges(ledger["EDITOR"]), "gpt-4o")
    + ExactSum(ResearchCharges(ledger["OUTLINER"]) \o ResearchCharges(ledger["EDITOR_IN_CHIEF"])
               \o ResearchCharges(ledger["CONTENT_STRATEGIST"])
               \o ResearchCharges(ledger["WRITER"]) \o ResearchCharges(ledger["EDITOR"]),
               "gpt-4o-mini")

\* C25: the returned cost is agentCosts + researchCosts: every agentUsage at
\* the rate of its role's model (o1 for the outliner and the editor-in-chief,
\* gpt-4o for the others), every nested usage at the gpt-4o-mini rate, and
\* nothing for a missing agentUsage or an empty nested list
C25_ReturnedCost ==
    pc \in {"returned", "usage"} =>
       InUnits(ReturnedCost(usages)) = ToLimbs(ExactCost(usages))

C25_Witness ==
    /\ pc = "returned"
    /\ result # None
    /\ ReturnedCost(usages) # FZero
    /\ \A role \in AgentRole : usages[role] # <<>>
    /\ \E k \in DOMAIN usages["WRITER"] : usages["WRITER"][k].researcherUsages # <<>>
    /\ \E k \in DOMAIN usages["EDITOR"] : usages["EDITOR"][k].researcherUsages = <<>>

\* the error thrown after the revision loop when there is no current content
NoContent(i) == StageError("NO_CONTENT", i)

\* C26: the throw after the revision loop is never reached: an instance
\* whose loop has ended without a failed writer or editor call has made at
\* least one pass, holds a draft and returns it, whatever the editor said
C26_LoopExitHasContent ==
    \A i \in Sections :
       /\ firstFailure # Some(NoContent(i))
       /\ raised # Some(NoContent(i))
       /\ promiseAll.reason # Some(NoContent(i))
       /\ st[i] = "returned" =>
             /\ iterations[i] >= 1
             /\ currentContent[i] # None

\* an instance throws only while a writer or editor call of it is in flight,
\* never on an editor's verdict
C26_ThrowIsCallFailure ==
    \A i \in Sections :
       st[i] # "thrown" /\ st'[i] = "thrown" =>
          /\ st[i] \in {"writer", "editor"}
          /\ verdicts'[i] = verdicts[i]

C26_NoContentThrowUnreachable ==
    []C26_LoopExitHasContent /\ [][C26_ThrowIsCallFailure]_vars

C26_Witness ==
    /\ promiseAll.state = "fulfilled"
    /\ st[1] = "returned" /\ verdicts[1] = <<FALSE, FALSE, FALSE>>
    /\ st[2] = "returned" /\ verdicts[2] = <<TRUE>>
    /\ currentContent[1] # None /\ currentContent[2] # None

\* the body of the s-th block of the document: the line under its heading
RenderedBody(markdown, s) ==
    LET starts == BlockStarts(markdown)
        i == CHOOSE j \in starts : Cardinality({ l \in starts : l <= j }) = s
        first == i + 6
        ends == { j \in first..Len(markdown) : markdown[j] = "\n" }
        last == CHOOSE j \in ends : \A l \in ends : j <= l
    IN SubSeq(markdown, first, last - 1)

\* one edit applied to a body of the section
SingleEdit(section, body, edit) ==
    IF edit.sectionHeading = section.heading
    THEN Replace(body, edit.originalText, edit.newText)
    ELSE body

\* the left fold of SingleEdit over the first k edits, from the section's content
RECURSIVE FoldLeft(_, _, _)
FoldLeft(section, edits, k) ==
    IF k = 0 THEN section.content
    ELSE SingleEdit(section, FoldLeft(section, edits, k - 1), edits[k])

\* C27: the edits of a section are applied in list order, each to the body
\* the edits before it left: the rendered body is the left fold of
\* single-edit application over the list
C27_EditsFoldInListOrder ==
    pc = "edited" =>
       LET sections == sectionContents[1]
           edits == finalReview[1].proposedEdits
       IN \A s \in DOMAIN sections :
             RenderedBody(finalMarkdown[1], s) = FoldLeft(sections[s], edits, Len(edits))

\* the second edit matches only what the first one wrote, and the list in the
\* other order renders another body
C27_Witness ==
    /\ pc = "edited"
    /\ Len(sectionContents[1]) = 1
    /\ sectionContents[1][1].content = <<"a">>
    /\ LET section == sectionContents[1][1]
           edits == finalReview[1].proposedEdits
       IN /\ Len(edits) = 2
          /\ edits[1].originalText = <<"a">> /\ edits[1].newText = <<"b">>
          /\ edits[2].originalText = <<"b">> /\ edits[2].newText = <<>>
          /\ RenderedBody(finalMarkdown[1], 1) = <<>>
          /\ FoldLeft(section, <<edits[2], edits[1]>>, 2) = <<"b">>

\* the edits of the list whose sectionHeading is the heading, in list order
EditsFor(heading, edits) == SelectSeq(edits, LAMBDA edit : edit.sectionHeading = heading)

\* the replacements of the edits made one after another on the body
RECURSIVE ReplaceEach(_, _)
ReplaceEach(body, edits) ==
    IF edits = <<>> THEN body
    ELSE ReplaceEach(Replace(body, Head(edits).originalText, Head(edits).newText), Tail(edits))

\* the list without its k-th element
Without(edits, k) == SubSeq(edits, 1, k - 1) \o SubSeq(edits, k + 1, Len(edits))

\* C28: the rendered body of a section depends only on the edits whose
\* sectionHeading is exactly its heading, and every section with that heading
\* gets them; an edit naming no section leaves the document as it is without
\* it, and the document is rendered all the same
C28_EditsOnlyTheirSections ==
    pc = "edited" =>
       LET sections == sectionContents[1]
           edits == finalReview[1].proposedEdits
       IN /\ finalMarkdown # None
          /\ \A s \in DOMAIN sections :
                RenderedBody(finalMarkdown[1], s)
                   = ReplaceEach(sections[s].content, EditsFor(sections[s].heading, edits))
          /\ \A k \in DOMAIN edits :
                (\A s \in DOMAIN sections : sections[s].heading # edits[k].sectionHeading)
                   => finalMarkdown[1] =
                         applyEditsAndGenerateMarkdown(finalReview[1].finalArticleTitle,
                                                       sections, Without(edits, k),
                                                       finalReview[1].globalFeedback)

\* two sections headed alike both take the edit; the edit for B finds no section
C28_Witness ==
    /\ pc = "edited"
    /\ LET sections == sectionContents[1]
           edits == finalReview[1].proposedEdits
       IN /\ Len(sections) = 2
          /\ sections[1].heading = <<"A">> /\ sections[1].content = <<"a">>
          /\ sections[2].heading = <<"A">> /\ sections[2].content = <<"a", "b">>
          /\ Len(edits) = 2
          /\ edits[1] = [sectionHeading |-> <<"B">>, originalText |-> <<"a">>,
                         newText |-> <<>>, priority |-> "HIGH"]
          /\ edits[2] = [sectionHeading |-> <<"A">>, originalText |-> <<"a">>,
                         newText |-> <<"b">>, priority |-> "HIGH"]
          /\ RenderedBody(finalMarkdown[1], 1) = <<"b">>
          /\ RenderedBody(finalMarkdown[1], 2) = <<"b", "b">>

\* the caller whose call of the role returns in the step
Returning(role) ==
    IF role \in {"WRITER", "EDITOR"}
    THEN { i \in Sections : RoleInFlight(i) = Some(role) /\ st'[i] # st[i] }
    ELSE { w \in {0} : RoleInFlight(0) = Some(role) }

\* every usage in the collector of a call in flight was spent by a research
\* sub-call of that very call
C29_CollectorsOwnUsages ==
    \A w \in Callers : \A j \in DOMAIN collector[w] :
       RoleInFlight(w) # None =>
          /\ collector[w][j].caller = RoleInFlight(w)[1]
          /\ collector[w][j].call = CallId(w)

\* a research sub-call adds its usage to the collector of the call that made
\* it and to no other, and a record appended to the ledger nests the usages
\* of the research sub-calls of the call that returns, and only those
C29_RecordNestsOwnUsages ==
    /\ \A w \in Callers :
          Len(collector'[w]) > Len(collector[w]) =>
             /\ collector'[w] = Append(collector[w], Last(collector'[w]))
             /\ Last(collector'[w]).call = CallId(w)
             /\ \A v \in Callers \ {w} : collector'[v] = collector[v]
             /\ usages' = usages
    /\ \A role \in AgentRole :
          Len(usages'[role]) > Len(usages[role]) =>
             \E w \in Returning(role) :
                /\ Last(usages'[role]).researcherUsages = collector[w]
                /\ \A j \in DOMAIN collector[w] : collector[w][j].call = CallId(w)
                /\ \A v \in Callers \ {w} : v > 0 /\ w > 0 => collector'[v] = collector[v]

\* C29: nested research usages are isolated per stage call: a research
\* sub-call's usage goes to the collector of the call that invoked it and from
\* there into that call's record only, whatever the interleaving of the
\* section instances and whatever iteration the call belongs to
C29_ResearchUsagesIsolated ==
    []C29_CollectorsOwnUsages /\ [][C29_RecordNestsOwnUsages]_vars

\* the writer of section 2 has returned its record while section 1, whose
\* editor ran the researcher in its second iteration, is still in flight
C29_Witness ==
    /\ NumSections = 2
    /\ st[1] = "editor" /\ iterations[1] = 2
    /\ collector[1] = << ResearchUsage("EDITOR", [section |-> 1, n |-> 2]) >>
    /\ st[2] = "editor"
    /\ \A role \in AgentRole : \A k \in DOMAIN usages[role] :
          usages[role][k].researcherUsages = <<>>

\* the cache holds exactly the keys of the searches that returned the
\* provider's response, a call that is done has returned a value, and no
\* search raises
C30_CacheHoldsSuccesses ==
    /\ DOMAIN searchCache = succeeded
    /\ raised = None
    /\ \A s \in SearchSlots : searchCalls[s].pc = "done" => searchCalls[s].out # None

\* a search begun after one for its key returned the provider's response
\* returns the stored response at once and calls nobody; any other search
\* calls the provider; a failed search stores nothing and returns the
\* failure message; a successful one stores what it returns
C30_SearchStep ==
    \A s \in SearchSlots :
       /\ searchCalls[s].pc = "idle" /\ searchCalls'[s].pc # "idle" =>
             LET cacheKey == searchCalls'[s].cacheKey[1]
             IN /\ searchCache' = searchCache
                /\ IF cacheKey \in succeeded
                   THEN /\ searchCalls'[s].pc = "done"
                        /\ ~searchCalls'[s].called
                        /\ searchCalls'[s].out = Some(searchCache[cacheKey])
                   ELSE /\ searchCalls'[s].pc = "provider"
                        /\ searchCalls'[s].called
       /\ searchCalls[s].pc = "provider" /\ searchCalls'[s].pc = "done" =>
             LET cacheKey == searchCalls[s].cacheKey[1]
             IN IF searchCalls'[s].out = Some(FailureMessage)
                THEN searchCache' = searchCache /\ succeeded' = succeeded
                ELSE /\ cacheKey \in DOMAIN searchCache'
                     /\ searchCalls'[s].out = Some(searchCache'[cacheKey])

\* C30: once a search for a key has returned the provider's response, every
\* later search for the same query and parameters returns the stored response
\* without calling the provider; a failed search stores nothing, returns the
\* failure message instead of raising, and a later identical search calls
\* the provider again
C30_CachedAfterSuccess ==
    []C30_CacheHoldsSuccesses /\ [][C30_SearchStep]_vars

\* three searches for one key: the first failed, the second called the
\* provider again and got a response, the third was served from the cache
C30_Witness ==
    /\ searchCalls[1].pc = "done" /\ searchCalls[1].called
    /\ searchCalls[1].out = Some(FailureMessage)
    /\ searchCalls[2] = [searchCalls[1] EXCEPT !.out = Some("r1")]
    /\ searchCalls[3] = [searchCalls[2] EXCEPT !.called = FALSE]
    /\ searchCache[searchCalls[1].cacheKey[1]] = "r1"

====
